---- MODULE Spec2Model ----
(***************************************************************************)
(* State-machine model of the Polars.NET native shim (native_shim/src).    *)
(*                                                                         *)
(* Spec      : the lazy-plan handle machine of lazy.rs / io.rs / schema.rs *)
(*             as one caller drives it: LazyFrame and Expr handles, every  *)
(*             consuming, borrowing and terminal call.                     *)
(* SpecRes   : the same machine over plans that hold Arc-shared scanners   *)
(*             and sink UDFs, with two threads executing terminal calls.   *)
(* SpecUnpivot: pl_lazy_unpivot on a frame, collected.                     *)
(* SpecAsof  : pl_lazy_join_asof on two plans, collected.                  *)
(* SpecScan  : CSharpStreamScanner::scan as the executor calls it.         *)
(* SpecSink  : CSharpSinkUdf::call (io.rs), chunk by chunk.                *)
(* SpecDtype : the DataType handles and exported functions of datatypes.rs *)
(*             and utils.rs, called with valid and invalid arguments.      *)
(* SpecKind  : kind codes read from and turned into DataTypes.             *)
(* SpecParams: DataTypes made with parameters and the parameters read back.*)
(* SpecShow  : DataTypes of any nesting rendered as strings.               *)
(* SpecSel   : Selector handles built and combined (selectors.rs).         *)
(* SpecByKind: Selectors made from every kind code.                        *)
(* SpecData  : Series built from buffers and read back (series.rs), and    *)
(*             Schemas built from pairs and read back (schema.rs).         *)
(* SpecUpgrade: upgrade_to_large_list applied to nested arrays (series.rs). *)
(* SpecBatch : one Arrow record imported as a DataFrame (io.rs).           *)
(* SpecTrip  : a DataFrame exported by pl_to_arrow and imported again.     *)
(***************************************************************************)
EXTENDS Integers, Sequences, FiniteSets, TLC

\* ------------------------------------------------------------------ bounds
MaxLf == 3          \* LazyFrame handles ever allocated
MaxEx == 2          \* Expr handles ever allocated
MaxRes == 2         \* scanners / sink UDFs ever registered
MaxRows == 1        \* height of a source

MaxDt == 2          \* DataType handles ever allocated
MaxChunks == 3      \* chunks of a batch given to the sink UDF
MaxHeight == 1      \* rows of a chunk

LfIds == 1..MaxLf
DtIds == 1..MaxDt
NoType == [k |-> "none"]
ExIds == 1..MaxEx
ResIds == 1..MaxRes
Threads == {"t1", "t2"}

\* ------------------------------------------------------------ plan values
\* The columns of every source, and their types (the schema of the file or
\* of the struct given to pl_lazy_frame_scan_stream).
SourceCols == <<<<"a", "i64">>, <<"b", "str">>>>

NoRefs == [r \in ResIds |-> 0]
NoPlan == [nil |-> TRUE]
Range(s) == {s[i] : i \in DOMAIN s}
IsInjective(s) == \A i, j \in DOMAIN s : s[i] = s[j] => i = j

VARIABLES
    lfLive,     \* LazyFrame handles that are live (Box not yet dropped)
    lfPlan,     \* handle -> the plan its Box holds
    lfBorn,     \* handle -> the plan it was created with (history)
    lfCache,    \* handle -> schema cached by collect_schema, or NoCache
    lfFrees,    \* handle -> number of times its Box was dropped
    nextLf,     \* next LazyFrame handle to allocate
    exLive, exVal, exFrees, nextEx,   \* the same for Expr handles
    rc,         \* resource -> Arc strong count
    torn,       \* resource -> number of teardown callback invocations
    resKind,    \* resource -> "none" | "scanner" | "udf"
    nextRes,
    cbLog,      \* the kinds of call during which an external callback ran
    running,    \* thread -> the terminal operation it is executing
    last,       \* the last completed call (history)
    \* CSharpSinkUdf::call (io.rs)
    skPc,       \* "idle" | "loop" | "done"
    skBatch,    \* the DataFrame given: its columns and the heights of its chunks
    skPos,      \* the chunk the loop is at
    skCalls,    \* the <<index, chunk>> pairs passed to the sink callback, in order
    skStat,     \* the statuses the callback returned, in order
    skBuf,      \* the contents of error_msg_buf
    skRet,      \* what call returned
    \* DataType handles and the exported functions of datatypes.rs / utils.rs
    dtLive,     \* DataType handles that are live
    dtType,     \* handle -> the DataType its Box holds
    nextDt,     \* next DataType handle to allocate
    dtMade,     \* handle -> the call that made it (history)
    dtLast,     \* the last call: function, how it ended, what it returned
    aborted,    \* the process was aborted by a panic that left an extern "C" fn
    \* Selector handles (selectors.rs)
    selLive,    \* Selector handles that are live
    selVal,     \* handle -> the Selector its Box holds
    selMade,    \* handle -> the call that made it, with the calls that made its operands
    nextSel,    \* next Selector handle to allocate
    \* Series handles (series.rs)
    serLive,    \* Series handles that are live
    serVal,     \* handle -> the Series its Box holds
    serMade,    \* handle -> the call that made it (history)
    nextSer,    \* next Series handle to allocate
    serLast,    \* the last accessor call: arguments, result, out-parameters
    \* Schema handles (schema.rs)
    schLive,    \* Schema handles that are live
    schVal,     \* handle -> the Schema its Box holds
    schMade,    \* handle -> the call that made it (history)
    nextSch,    \* next Schema handle to allocate
    schLast,    \* the last accessor call: arguments, result, out-parameters
    \* pl_dataframe_from_arrow_record_batch (io.rs)
    rbLast      \* the last record imported and what the call returned

lfVars == <<lfLive, lfPlan, lfBorn, lfCache, lfFrees, nextLf>>
exVars == <<exLive, exVal, exFrees, nextEx>>
resVars == <<rc, torn, resKind, nextRes>>
lazyVars == <<lfVars, exVars, resVars, cbLog, running, last>>
sinkVars == <<skPc, skBatch, skPos, skCalls, skStat, skBuf, skRet>>
dtVars == <<dtLive, dtType, nextDt, dtMade, dtLast, aborted>>
selVars == <<selLive, selVal, selMade, nextSel>>
serVars == <<serLive, serVal, serMade, nextSer, serLast>>
schVars == <<schLive, schVal, schMade, nextSch, schLast>>
rbVars == <<rbLast>>
extVars == <<selVars, serVars, schVars, rbVars>>
nonLazyVars == <<sinkVars, dtVars, extVars>>
nonSinkVars == <<lazyVars, dtVars, extVars>>
nonDtVars == <<lazyVars, sinkVars, extVars>>
nonExtVars == <<lazyVars, sinkVars, dtVars>>
nonSelVars == <<nonExtVars, serVars, schVars, rbVars>>
nonSerVars == <<nonExtVars, selVars, schVars, rbVars>>
nonSchVars == <<nonExtVars, selVars, serVars, rbVars>>
nonRbVars == <<nonExtVars, selVars, serVars, schVars>>
vars == <<lazyVars, sinkVars, dtVars, extVars>>

Idle == [op |-> "idle"]
NoCache == <<<<"none", "none">>>>
NoVal == [tag |-> "none"]

NoMade == [op |-> "none", code |-> 0]
InitCall == [op |-> "init", arg |-> 0, how |-> "value", ret |-> 0]
InitLazy ==
    /\ lfLive = {}
    /\ lfPlan = [h \in LfIds |-> NoPlan]
    /\ lfBorn = [h \in LfIds |-> NoPlan]
    /\ lfCache = [h \in LfIds |-> NoCache]
    /\ lfFrees = [h \in LfIds |-> 0]
    /\ nextLf = 1
    /\ exLive = {}
    /\ exVal = [e \in ExIds |-> NoVal]
    /\ exFrees = [e \in ExIds |-> 0]
    /\ nextEx = 1
    /\ rc = NoRefs
    /\ torn = NoRefs
    /\ resKind = [r \in ResIds |-> "none"]
    /\ nextRes = 1
    /\ cbLog = {}
    /\ running = [t \in Threads |-> Idle]
    /\ last = [op |-> "init", lfs |-> {}, exprs |-> {}, ok |-> TRUE,
               made |-> 0, out |-> 0, val |-> NoVal]

InitSink ==
    /\ skPc = "idle"
    /\ skBatch = [cols |-> <<>>, chunks |-> <<>>]
    /\ skPos = 1
    /\ skCalls = <<>>
    /\ skStat = <<>>
    /\ skBuf = ""
    /\ skRet = NoVal

InitDt ==
    /\ dtLive = {}
    /\ dtType = [h \in DtIds |-> NoType]
    /\ nextDt = 1
    /\ dtMade = [h \in DtIds |-> NoMade]
    /\ dtLast = InitCall
    /\ aborted = FALSE

\* No Selector handle exists.
MaxSel == 5
MaxSelLive == 2
SelIds == 1..MaxSel
NoSel == [t |-> "none"]
NoSelCall == [op |-> "none"]
InitSel ==
    /\ selLive = {}
    /\ selVal = [h \in SelIds |-> NoSel]
    /\ selMade = [h \in SelIds |-> NoSelCall]
    /\ nextSel = 1

\* No Series handle exists.
MaxSer == 1
SerIds == 1..MaxSer
NoSeries == [dtype |-> NoType, elems |-> <<>>]
NoSerCall == [op |-> "none"]
InitSer ==
    /\ serLive = {}
    /\ serVal = [h \in SerIds |-> NoSeries]
    /\ serMade = [h \in SerIds |-> NoSerCall]
    /\ nextSer = 1
    /\ serLast = NoSerCall

\* No Schema handle exists.
MaxSch == 1
SchIds == 1..MaxSch
NoSchCall == [op |-> "none"]
InitSch ==
    /\ schLive = {}
    /\ schVal = [h \in SchIds |-> <<>>]
    /\ schMade = [h \in SchIds |-> NoSchCall]
    /\ nextSch = 1
    /\ schLast = NoSchCall

NoRbCall == [op |-> "none"]
InitRb == rbLast = NoRbCall

InitExt == InitSel /\ InitSer /\ InitSch /\ InitRb

Init == InitLazy /\ InitSink /\ InitDt /\ InitExt


\* ---------------------------------------------------------------- helpers
Min(a, b) == IF a < b THEN a ELSE b

\* Box::into_raw(Box::new(LazyFrameContext { inner })): a fresh live handle.
NewLfHandle(live, plan) ==
    /\ nextLf <= MaxLf
    /\ lfLive' = live \cup {nextLf}
    /\ lfPlan' = [lfPlan EXCEPT ![nextLf] = plan]
    /\ lfBorn' = [lfBorn EXCEPT ![nextLf] = plan]
    /\ nextLf' = nextLf + 1

\* The call record left behind by a completed call.
Call(op, lfs, exprs, ok, made, out, val) ==
    [op |-> op, lfs |-> lfs, exprs |-> exprs, ok |-> ok,
     made |-> made, out |-> out, val |-> val]

\* Arc<T>::clone / Arc<T>::drop on every reference a plan holds.
AddRefs(a, b) == [r \in ResIds |-> a[r] + b[r]]
SubRefs(a, b) == [r \in ResIds |-> a[r] - b[r]]
RECURSIVE SumRefs(_)
SumRefs(hs) ==
    IF hs = {} THEN NoRefs
    ELSE LET h == CHOOSE x \in hs : TRUE
         IN AddRefs(lfPlan[h].res, SumRefs(hs \ {h}))

\* impl Drop for CSharpStreamScanner / CSharpSinkUdf, run by Arc when the
\* strong count reaches zero: the teardown callback is invoked on user_data.
DropRefsEach(tornf, rcf, bag) == [r \in ResIds |-> tornf[r] + bag[r]]
DropRefs(tornf, rcf, bag) ==
    [r \in ResIds |->
        IF bag[r] > 0 /\ rcf[r] - bag[r] = 0 THEN tornf[r] + 1 ELSE tornf[r]]

\* consume_exprs_array: Box::from_raw on every pointer of the array.
consume_exprs_array_first(es) == IF es = <<>> THEN {} ELSE {es[1]}
consume_exprs_array(es) == Range(es)

\* Box::from_raw(lf_ptr) (the handle is released when the call returns)
\* against &*lf_ptr / &mut *lf_ptr (the handle stays with the caller).
BorrowLfAsConsume(live, h) == live \ {h}
BorrowLf(live, h) == live

\* Arrays of distinct live Expr handles, as a caller may pass them.
ExprArrays(maxLen) ==
    {es \in UNION {[1..n -> exLive] : n \in 0..maxLen} : IsInjective(es)}
\* The names of a schema (a sequence of <<name, dtype>> fields).
Names(cols) == [i \in DOMAIN cols |-> cols[i][1]]
HasName(cols, n) == \E i \in DOMAIN cols : cols[i][1] = n
FieldOf(cols, n) == cols[CHOOSE i \in DOMAIN cols : cols[i][1] = n]
\* The output field of each expression against the columns of a plan.
ColsOf(p, es) ==
    [i \in DOMAIN es |->
        IF exVal[es[i]].sel /\ HasName(p.cols, exVal[es[i]].col)
        THEN FieldOf(p.cols, exVal[es[i]].col)
        ELSE <<exVal[es[i]].col, "i32">>]
\* An expression that names a column the plan does not have.
Unresolved(p, es) ==
    \E i \in DOMAIN es : exVal[es[i]].sel /\ ~HasName(p.cols, exVal[es[i]].col)

\* The effect shared by every consuming call: the Boxes of the LazyFrame
\* handles hs and of the Expr handles exs (of those passed) are dropped; on
\* success the new plan
\* (which took over the Arc references of its inputs) gets a fresh handle, on
\* error the inputs' references are dropped with them.
ConsumeHandles(op, hs, passed, exs, ok, plan) ==
    LET plans == [h \in LfIds |-> IF h \in hs THEN NoPlan ELSE lfPlan[h]]
    IN  /\ hs \subseteq lfLive
        /\ passed \subseteq exLive
        /\ exLive' = exLive \ exs
        /\ exVal' = [e \in ExIds |-> IF e \in exs THEN NoVal ELSE exVal[e]]
        /\ exFrees' = [e \in ExIds |-> IF e \in exs THEN exFrees[e] + 1 ELSE exFrees[e]]
        /\ lfFrees' = [h \in LfIds |-> IF h \in hs THEN lfFrees[h] + 1 ELSE lfFrees[h]]
        /\ lfCache' = [h \in LfIds |-> IF h \in hs THEN NoCache ELSE lfCache[h]]
        /\ IF ok
           THEN /\ nextLf <= MaxLf
                /\ lfLive' = (lfLive \ hs) \cup {nextLf}
                /\ lfPlan' = [plans EXCEPT ![nextLf] = plan]
                /\ lfBorn' = [lfBorn EXCEPT ![nextLf] = plan]
                /\ nextLf' = nextLf + 1
                /\ last' = Call(op, hs, passed, TRUE, 1, nextLf, NoVal)
           ELSE /\ lfLive' = lfLive \ hs
                /\ lfPlan' = plans
                /\ UNCHANGED lfBorn
                /\ UNCHANGED nextLf
                /\ last' = Call(op, hs, passed, FALSE, 0, 0, NoVal)
        /\ UNCHANGED <<nextEx>>

\* Dropping the plans of the handles hs: every Arc reference they hold goes.
DropPlans(bag) ==
    /\ rc' = SubRefs(rc, bag)
    /\ torn' = DropRefs(torn, rc, bag)

ConsumingCall(op, hs, passed, exs, ok, plan) ==
    /\ ConsumeHandles(op, hs, passed, exs, ok, plan)
    /\ IF ok THEN UNCHANGED <<rc, torn>> ELSE DropPlans(SumRefs(hs))
    /\ UNCHANGED <<resKind, nextRes, cbLog, running>>

\* The plan of a source: every column, every row, nothing consumed yet.
SourcePlan(refs) ==
    [cols |-> SourceCols, rows |-> MaxRows, bad |-> FALSE, sink |-> FALSE,
     res |-> refs]

\* ------------------------------------------------------------ plan sources
\* pl_scan_parquet: a plan over a file, or an error for a bad path.
pl_scan_parquet(pathOk) ==
    /\ IF pathOk
       THEN /\ NewLfHandle(lfLive, SourcePlan(NoRefs))
            /\ last' = Call("pl_scan_parquet", {}, {}, TRUE, 1, nextLf, NoVal)
       ELSE /\ UNCHANGED <<lfLive, lfPlan, lfBorn, nextLf>>
            /\ last' = Call("pl_scan_parquet", {}, {}, FALSE, 0, 0, NoVal)
    /\ UNCHANGED <<lfCache, lfFrees, exVars, resVars, cbLog, running>>

\* pl_lazy_frame_scan_stream: the schema is imported first; only a struct
\* schema reaches the construction of the scanner (Arc::new(scanner), strong
\* count 1). schema() of the scanner is consulted by anonymous_scan.
AnonymousScan_schema_scans(r) == {r}
AnonymousScan_schema(r) == {}
pl_lazy_frame_scan_stream(schemaKind) ==
    /\ nextRes <= MaxRes
    /\ nextRes' = nextRes + 1
    /\ IF schemaKind = "struct"
       THEN /\ NewLfHandle(lfLive,
                   SourcePlan([r \in ResIds |-> IF r = nextRes THEN 1 ELSE 0]))
            /\ resKind' = [resKind EXCEPT ![nextRes] = "scanner"]
            /\ rc' = [rc EXCEPT ![nextRes] = 1]
            /\ cbLog' = cbLog \cup
                 (IF AnonymousScan_schema(nextRes) = {} THEN {} ELSE {"construction"})
            /\ last' = Call("pl_lazy_frame_scan_stream", {}, {}, TRUE, 1, nextLf, NoVal)
       ELSE /\ resKind' = [resKind EXCEPT ![nextRes] = "unowned"]
            /\ UNCHANGED <<lfLive, lfPlan, lfBorn, nextLf, rc, cbLog>>
            /\ last' = Call("pl_lazy_frame_scan_stream", {}, {}, FALSE, 0, 0, NoVal)
    /\ UNCHANGED <<lfCache, lfFrees, exVars, torn, running>>

\* pl_selector_into_expr: a selector becomes an Expr handle.
NewExHandle(v) ==
    /\ nextEx <= MaxEx
    /\ exLive' = exLive \cup {nextEx}
    /\ exVal' = [exVal EXCEPT ![nextEx] = v]
    /\ nextEx' = nextEx + 1
    /\ UNCHANGED <<exFrees, lfVars, resVars, cbLog, running, last>>

pl_selector_into_expr(col) == NewExHandle([sel |-> TRUE, col |-> col])

\* A literal expression (built by the expression constructors).
pl_expr_lit == NewExHandle([sel |-> FALSE, col |-> "lit"])

\* ------------------------------------------------- the plans the calls build
\* select: the output columns are the expressions, in order.
PlanSelect(p, es) ==
    LET wrong == Unresolved(p, es) \/ ~IsInjective(Names(ColsOf(p, es)))
    IN [p EXCEPT !.bad = p.bad \/ wrong,
                 !.cols = IF wrong THEN p.cols ELSE ColsOf(p, es)]
\* with_columns: new names are appended, existing ones replaced in place.
RECURSIVE AppendNew(_, _)
AppendNew(cols, fields) ==
    IF fields = <<>> THEN cols
    ELSE AppendNew(IF HasName(cols, Head(fields)[1])
                   THEN [i \in DOMAIN cols |->
                           IF cols[i][1] = Head(fields)[1] THEN Head(fields) ELSE cols[i]]
                   ELSE Append(cols, Head(fields)), Tail(fields))
PlanWithColumns(p, es) ==
    LET wrong == Unresolved(p, es) \/ ~IsInjective(Names(ColsOf(p, es)))
    IN [p EXCEPT !.bad = p.bad \/ wrong,
                 !.cols = IF wrong THEN p.cols ELSE AppendNew(p.cols, ColsOf(p, es))]
\* filter / sort: the same columns; an unknown column fails at resolution.
PlanKeep(p, es) == [p EXCEPT !.bad = p.bad \/ Unresolved(p, es)]
PlanLimit(p, n) == [p EXCEPT !.rows = Min(p.rows, n)]
\* group_by(keys).agg(aggs): one row per group, keys then aggregates.
PlanGroupBy(p, keys, aggs) ==
    LET wrong == Unresolved(p, keys \o aggs)
                 \/ ~IsInjective(Names(ColsOf(p, keys \o aggs)))
    IN [p EXCEPT !.bad = p.bad \/ wrong,
                 !.cols = IF wrong THEN p.cols ELSE ColsOf(p, keys \o aggs),
                 !.rows = Min(p.rows, 1)]

\* --------------------------------------------- consuming plan construction
\* gen_lazy_vec_op!: pl_lazy_select, pl_lazy_with_columns.
gen_lazy_vec_op(name, h, es) ==
    ConsumingCall(name, {h}, Range(es), consume_exprs_array(es), TRUE,
                  IF name = "pl_lazy_select" THEN PlanSelect(lfPlan[h], es)
                  ELSE PlanWithColumns(lfPlan[h], es))

\* gen_lazy_single_expr_op!: pl_lazy_filter.
gen_lazy_single_expr_op(name, h, e) ==
    ConsumingCall(name, {h}, {e}, {e}, TRUE, PlanKeep(lfPlan[h], <<e>>))

\* gen_lazy_scalar_op!: pl_lazy_limit, pl_lazy_tail.
gen_lazy_scalar_op(name, h, val) ==
    ConsumingCall(name, {h}, {}, {}, TRUE, PlanLimit(lfPlan[h], val))

pl_lazy_sort(h, e, descending) ==
    ConsumingCall("pl_lazy_sort", {h}, {e}, {e}, TRUE, PlanKeep(lfPlan[h], <<e>>))

pl_lazy_groupby_agg(h, keys, aggs) ==
    /\ Range(keys) \cap Range(aggs) = {}
    /\ ConsumingCall("pl_lazy_groupby_agg", {h}, Range(keys) \cup Range(aggs),
                     consume_exprs_array(keys) \cup consume_exprs_array(aggs), TRUE,
                     PlanGroupBy(lfPlan[h], keys, aggs))

\* pl_lazy_explode: an empty list returns the plan as it is; an expression
\* that is no selector is an error (after everything was taken over).
pl_lazy_explode(h, es) ==
    ConsumingCall("pl_lazy_explode", {h}, Range(es), consume_exprs_array(es),
                  \A i \in DOMAIN es : exVal[es[i]].sel,
                  IF es = <<>> THEN lfPlan[h] ELSE PlanKeep(lfPlan[h], es))

\* pl_lazy_unpivot: the name arrays are read after the plan was taken over
\* (a null or non-UTF-8 name panics inside ffi_try). An empty value list
\* stacks every column that is no index column.
PlanUnpivot(p, idv, valv) ==
    LET onNames == IF valv = <<>>
                   THEN {p.cols[i][1] : i \in DOMAIN p.cols} \ Range(idv)
                   ELSE Range(valv)
        wrong == \E n \in Range(idv) \cup onNames : ~HasName(p.cols, n)
    IN [p EXCEPT !.bad = p.bad \/ wrong,
                 !.cols = IF wrong THEN p.cols
                          ELSE [i \in DOMAIN idv |-> FieldOf(p.cols, idv[i])]
                               \o <<<<"variable", "str">>, <<"value", "i64">>>>,
                 !.rows = Cardinality(onNames) * p.rows]
pl_lazy_unpivot(h, idv, valv, namesOk) ==
    ConsumingCall("pl_lazy_unpivot", {h}, {}, {}, namesOk,
                  PlanUnpivot(lfPlan[h], idv, valv))

\* pl_lazy_concat: every plan of the array is taken over first; an unknown
\* strategy, or a concat the engine rejects, is an error.
PlanConcat(ps, how) ==
    LET a == ps[1]
        b == ps[Len(ps)]
        refs == IF Len(ps) = 1 THEN a.res ELSE AddRefs(a.res, b.res)
        one == Len(ps) = 1
    IN  [cols |-> IF one \/ how = 0 THEN a.cols ELSE AppendNew(a.cols, b.cols),
         rows |-> IF one THEN a.rows
                  ELSE IF how = 1 THEN (IF a.rows > b.rows THEN a.rows ELSE b.rows)
                  ELSE a.rows + b.rows,
         bad |-> a.bad \/ b.bad \/ (~one /\ how = 0 /\ a.cols # b.cols),
         sink |-> a.sink \/ b.sink,
         res |-> refs]
pl_lazy_concat(hsq, how, engineOk) ==
    /\ Len(hsq) >= 1
    /\ ConsumingCall("pl_lazy_concat", Range(hsq), {}, {},
                     how \in 0..2 /\ engineOk,
                     PlanConcat([i \in DOMAIN hsq |-> lfPlan[hsq[i]]], how))

\* pl_lazy_join / pl_lazy_join_asof: both plans and every key expression are
\* taken over before anything can fail.
PlanJoin(l, r, lon, ron) ==
    [cols |-> AppendNew(l.cols, r.cols),
     rows |-> Min(l.rows, r.rows),
     bad |-> l.bad \/ r.bad \/ Unresolved(l, lon) \/ Unresolved(r, ron)
             \/ Len(lon) # Len(ron),
     sink |-> l.sink \/ r.sink,
     res |-> AddRefs(l.res, r.res)]
pl_lazy_join(l, r, lon, ron, how_code) ==
    /\ l # r
    /\ Range(lon) \cap Range(ron) = {}
    /\ ConsumingCall("pl_lazy_join", {l, r}, Range(lon) \cup Range(ron),
                     consume_exprs_array(lon) \cup consume_exprs_array(ron), TRUE,
                     PlanJoin(lfPlan[l], lfPlan[r], lon, ron))

\* A null strategy pointer panics in ptr_to_str, inside ffi_try, after the
\* plans, the keys and the by-arrays were taken over.
pl_lazy_join_asof(l, r, lo, ro, byl, byr, strategyNull) ==
    /\ l # r
    /\ lo # ro
    /\ Range(byl) \cap Range(byr) = {}
    /\ {lo, ro} \cap (Range(byl) \cup Range(byr)) = {}
    /\ ConsumingCall("pl_lazy_join_asof", {l, r},
                     {lo, ro} \cup Range(byl) \cup Range(byr),
                     {lo, ro} \cup consume_exprs_array(byl) \cup consume_exprs_array(byr),
                     ~strategyNull,
                     PlanJoin(lfPlan[l], lfPlan[r], <<lo>> \o byl, <<ro>> \o byr))

\* pl_lazy_map_batches: the plan is taken over and wrapped in a map node
\* that holds Arc::new(CSharpSinkUdf) (strong count 1).
pl_lazy_map_batches(h) ==
    /\ nextRes <= MaxRes
    /\ ConsumeHandles("pl_lazy_map_batches", {h}, {}, {}, TRUE,
                      [lfPlan[h] EXCEPT !.sink = TRUE, !.res[nextRes] = 1])
    /\ rc' = [rc EXCEPT ![nextRes] = 1]
    /\ resKind' = [resKind EXCEPT ![nextRes] = "udf"]
    /\ nextRes' = nextRes + 1
    /\ UNCHANGED <<torn, cbLog, running>>

\* ------------------------------------------------------ terminal operations
HasRefs(p) == \E r \in ResIds : p.res[r] > 0
ErrVal == [tag |-> "error"]
EmptyFrame == [tag |-> "frame", cols |-> <<>>, rows |-> 0]
\* What executing a plan yields: an error for a plan that does not resolve or
\* whose callback failed; the empty frame below a batch sink (the UDF returns
\* DataFrame::empty()); otherwise the plan's columns and rows.
Frame(p, cbOk) ==
    IF p.bad \/ ~cbOk THEN ErrVal
    ELSE IF p.sink THEN EmptyFrame
    ELSE [tag |-> "frame", cols |-> p.cols, rows |-> p.rows]

TerminalOps == {"pl_lazy_collect", "pl_lazy_collect_streaming", "pl_lazy_sink"}

\* Box::from_raw(lf_ptr), then the engine runs the plan on thread t. A sink
\* reads its path after taking the plan over: a null or non-UTF-8 path panics
\* inside ffi_try_void and the plan is dropped without running. A plan that
\* does not resolve fails before anything runs. A plan that holds no scanner
\* and no sink UDF shares nothing with other threads and runs to completion
\* in this step; otherwise the execution continues in ExecCallbacks and
\* TerminalEnd, interleaved with the calls of other threads.
TerminalBegin(op, t, h, pathOk) ==
    /\ op \in TerminalOps
    /\ running[t] = Idle
    /\ h \in lfLive
    /\ lfLive' = lfLive \ {h}
    /\ lfPlan' = [lfPlan EXCEPT ![h] = NoPlan]
    /\ UNCHANGED lfBorn
    /\ lfCache' = [lfCache EXCEPT ![h] = NoCache]
    /\ lfFrees' = [lfFrees EXCEPT ![h] = lfFrees[h] + 1]
    /\ LET p == lfPlan[h]
           isSink == op = "pl_lazy_sink"
       IN  IF isSink /\ ~pathOk
           THEN /\ DropPlans(p.res)
                /\ last' = Call(op, {h}, {}, FALSE, 0, 0, ErrVal)
                /\ UNCHANGED running
           ELSE IF p.bad \/ ~HasRefs(p)
           THEN /\ DropPlans(p.res)
                /\ last' = Call(op, {h}, {}, ~p.bad,
                                IF ~p.bad /\ ~isSink THEN 1 ELSE 0, 0, Frame(p, TRUE))
                /\ UNCHANGED running
           ELSE /\ running' = [running EXCEPT ![t] =
                                  [op |-> op, h |-> h, plan |-> p, cb |-> "none"]]
                /\ UNCHANGED <<rc, torn, last>>
    /\ UNCHANGED <<nextLf, exVars, resKind, nextRes, cbLog>>

\* The engine calls scan() of every scanner and call() of every sink UDF of
\* the running plan; each invokes its external callback, which may fail.
ExecCallbacks(t, cbOk) ==
    /\ running[t] # Idle
    /\ running[t].cb = "none"
    /\ cbLog' = cbLog \cup {"terminal"}
    /\ running' = [running EXCEPT ![t].cb = IF cbOk THEN "ok" ELSE "fail"]
    /\ UNCHANGED <<lfVars, exVars, resVars, last>>

\* The terminal operation returns: the executed plan is dropped, and a
\* collect that succeeded hands out a DataFrame handle.
TerminalEnd(t) ==
    /\ running[t] # Idle
    /\ running[t].cb # "none"
    /\ LET run == running[t]
           frame == Frame(run.plan, run.cb # "fail")
           isSink == run.op = "pl_lazy_sink"
           ok == frame # ErrVal
       IN  /\ DropPlans(run.plan.res)
           /\ last' = Call(run.op, {run.h}, {}, ok,
                           IF ok /\ ~isSink THEN 1 ELSE 0, 0, frame)
    /\ running' = [running EXCEPT ![t] = Idle]
    /\ UNCHANGED <<lfVars, exVars, resKind, nextRes, cbLog>>

\* --------------------------------------------------- borrowing operations
\* pl_lazy_clone: &*lf_ptr; the clone holds its own Arc references.
pl_lazy_clone(h) ==
    /\ h \in lfLive
    /\ nextLf <= MaxLf
    /\ lfLive' = BorrowLf(lfLive, h) \cup {nextLf}
    /\ lfPlan' = [lfPlan EXCEPT ![nextLf] = lfPlan[h]]
    /\ lfBorn' = [lfBorn EXCEPT ![nextLf] = lfPlan[h]]
    /\ lfCache' = [lfCache EXCEPT ![nextLf] = lfCache[h]]
    /\ nextLf' = nextLf + 1
    /\ rc' = AddRefs(rc, lfPlan[h].res)
    /\ last' = Call("pl_lazy_clone", {h}, {}, TRUE, 1, nextLf, NoVal)
    /\ UNCHANGED <<lfFrees, exVars, torn, resKind, nextRes, cbLog, running>>

\* LazyFrame::collect_schema(&mut self): the schema is resolved once and
\* cached in the LazyFrame; an error is not cached.
collect_schema_stale(p, cache) ==
    IF cache # NoCache THEN [schema |-> [tag |-> "schema", fields |-> <<>>], cache |-> cache]
    ELSE IF p.bad THEN [schema |-> ErrVal, cache |-> NoCache]
    ELSE [schema |-> [tag |-> "schema", fields |-> p.cols], cache |-> p.cols]
collect_schema(p, cache) ==
    IF cache # NoCache THEN [schema |-> [tag |-> "schema", fields |-> cache], cache |-> cache]
    ELSE IF p.bad THEN [schema |-> ErrVal, cache |-> NoCache]
    ELSE [schema |-> [tag |-> "schema", fields |-> p.cols], cache |-> p.cols]

\* The schema of a plan. Scanners answer schema() from the schema they were
\* given; a map node without an output schema keeps its input's.
SchemaCallbacks(p) ==
    UNION {AnonymousScan_schema(r) : r \in {x \in ResIds : p.res[x] > 0 /\ resKind[x] = "scanner"}}

\* pl_lazy_schema: "{ "name": "dtype", ... }" from the resolved schema.
SchemaJson(sv) ==
    IF sv = ErrVal THEN ErrVal
    ELSE [tag |-> "json",
          parts |-> [i \in DOMAIN sv.fields |->
                        <<"\"", sv.fields[i][1], "\": \"", sv.fields[i][2], "\"">>]]

SchemaCall(op, h, val, cache) ==
    /\ h \in lfLive
    /\ lfLive' = BorrowLf(lfLive, h)
    /\ lfCache' = [lfCache EXCEPT ![h] = cache]
    /\ cbLog' = cbLog \cup (IF SchemaCallbacks(lfPlan[h]) = {} THEN {} ELSE {"schema"})
    /\ last' = Call(op, {h}, {}, val # ErrVal, 0, 0, val)
    /\ UNCHANGED <<lfPlan, lfBorn, lfFrees, nextLf, exVars, resVars, running>>

pl_lazy_schema(h) ==
    /\ h \in lfLive
    /\ LET got == collect_schema(lfPlan[h], lfCache[h])
       IN SchemaCall("pl_lazy_schema", h, SchemaJson(got.schema), got.cache)

\* pl_lazy_frame_get_schema: a SchemaContext holding the resolved schema.
pl_lazy_frame_get_schema(h) ==
    /\ h \in lfLive
    /\ LET got == collect_schema(lfPlan[h], lfCache[h])
       IN SchemaCall("pl_lazy_frame_get_schema", h, got.schema, got.cache)

\* pl_lazy_explain: &*lf_ptr; renders the plan, optimized or not.
Explain(p, optimized) ==
    IF p.bad THEN ErrVal
    ELSE [tag |-> "plan", cols |-> p.cols, rows |-> p.rows, sink |-> p.sink,
          optimized |-> optimized]
pl_lazy_explain(h, optimized) ==
    /\ h \in lfLive
    /\ lfLive' = BorrowLf(lfLive, h)
    /\ LET val == Explain(lfPlan[h], optimized)
       IN last' = Call("pl_lazy_explain", {h}, {}, val # ErrVal, 0, 0, val)
    /\ UNCHANGED <<lfPlan, lfBorn, lfCache, lfFrees, nextLf, exVars, resVars,
                   cbLog, running>>

\* pl_lazy_frame_free: drops the Box of a non-null handle.
pl_lazy_frame_free(h) ==
    /\ h \in lfLive
    /\ lfLive' = lfLive \ {h}
    /\ lfPlan' = [lfPlan EXCEPT ![h] = NoPlan]
    /\ UNCHANGED lfBorn
    /\ lfCache' = [lfCache EXCEPT ![h] = NoCache]
    /\ lfFrees' = [lfFrees EXCEPT ![h] = lfFrees[h] + 1]
    /\ DropPlans(lfPlan[h].res)
    /\ last' = Call("pl_lazy_frame_free", {h}, {}, TRUE, 0, 0, NoVal)
    /\ UNCHANGED <<nextLf, exVars, resKind, nextRes, cbLog, running>>

IdArrays == {<<>>, <<"a">>}
ValArrays == {<<>>, <<"z">>}
LfArrays ==
    {hs \in UNION {[1..n -> lfLive] : n \in 1..2} : IsInjective(hs)}

\* The calls of one caller thread on plans over files: every constructor of
\* Expr and LazyFrame handles, every consuming and every borrowing call.
Next ==
    \/ \E ok \in BOOLEAN : pl_scan_parquet(ok)
          /\ UNCHANGED nonLazyVars
    \/ \E c \in {"a"} : pl_selector_into_expr(c)
          /\ UNCHANGED nonLazyVars
    \/ pl_expr_lit
          /\ UNCHANGED nonLazyVars
    \/ \E n \in {"pl_lazy_select", "pl_lazy_with_columns"}, h \in lfLive,
          es \in ExprArrays(MaxEx) : gen_lazy_vec_op(n, h, es)
          /\ UNCHANGED nonLazyVars
    \/ \E h \in lfLive, e \in exLive : gen_lazy_single_expr_op("pl_lazy_filter", h, e)
          /\ UNCHANGED nonLazyVars
    \/ \E n \in {"pl_lazy_limit", "pl_lazy_tail"}, h \in lfLive, v \in 0..MaxRows :
          gen_lazy_scalar_op(n, h, v)
          /\ UNCHANGED nonLazyVars
    \/ \E h \in lfLive, e \in exLive, d \in {TRUE} : pl_lazy_sort(h, e, d)
          /\ UNCHANGED nonLazyVars
    \/ \E h \in lfLive, ks \in ExprArrays(MaxEx), as \in ExprArrays(MaxEx) :
          pl_lazy_groupby_agg(h, ks, as)
          /\ UNCHANGED nonLazyVars
    \/ \E h \in lfLive, es \in ExprArrays(MaxEx) : pl_lazy_explode(h, es)
          /\ UNCHANGED nonLazyVars
    \/ \E h \in lfLive, idv \in IdArrays, valv \in ValArrays, ok \in BOOLEAN :
          pl_lazy_unpivot(h, idv, valv, ok)
          /\ UNCHANGED nonLazyVars
    \/ \E hs \in LfArrays, how \in 0..3, ok \in BOOLEAN : pl_lazy_concat(hs, how, ok)
          /\ UNCHANGED nonLazyVars
    \/ \E l \in lfLive, r \in lfLive, lon \in ExprArrays(MaxEx),
          ron \in ExprArrays(MaxEx), how \in {0} : pl_lazy_join(l, r, lon, ron, how)
          /\ UNCHANGED nonLazyVars
    \/ \E l \in lfLive, r \in lfLive, lo \in exLive, ro \in exLive,
          byl \in ExprArrays(MaxEx), byr \in ExprArrays(MaxEx), sn \in BOOLEAN :
          pl_lazy_join_asof(l, r, lo, ro, byl, byr, sn)
          /\ UNCHANGED nonLazyVars
    \/ \E op \in TerminalOps, h \in lfLive, ok \in BOOLEAN :
          TerminalBegin(op, "t1", h, ok)
          /\ UNCHANGED nonLazyVars
    \/ \E h \in lfLive : pl_lazy_clone(h)
          /\ UNCHANGED nonLazyVars
    \/ \E h \in lfLive : pl_lazy_schema(h)
          /\ UNCHANGED nonLazyVars
    \/ \E h \in lfLive : pl_lazy_frame_get_schema(h)
          /\ UNCHANGED nonLazyVars
    \/ \E h \in lfLive, o \in BOOLEAN : pl_lazy_explain(h, o)
          /\ UNCHANGED nonLazyVars
    \/ \E h \in lfLive : pl_lazy_frame_free(h)
          /\ UNCHANGED nonLazyVars

\* Plans over external resources (anonymous scans, batch sinks), built,
\* cloned, inspected, released and executed by several threads.
NextRes ==
    \/ \E k \in {"struct", "other", "invalid"} : pl_lazy_frame_scan_stream(k)
          /\ UNCHANGED nonLazyVars
    \/ \E h \in lfLive : pl_lazy_map_batches(h)
          /\ UNCHANGED nonLazyVars
    \/ \E n \in {"pl_lazy_select", "pl_lazy_with_columns"}, h \in lfLive :
          gen_lazy_vec_op(n, h, <<>>)
          /\ UNCHANGED nonLazyVars
    \/ \E n \in {"pl_lazy_limit", "pl_lazy_tail"}, h \in lfLive, v \in 0..MaxRows :
          gen_lazy_scalar_op(n, h, v)
          /\ UNCHANGED nonLazyVars
    \/ \E h \in lfLive : pl_lazy_groupby_agg(h, <<>>, <<>>)
          /\ UNCHANGED nonLazyVars
    \/ \E h \in lfLive : pl_lazy_explode(h, <<>>)
          /\ UNCHANGED nonLazyVars
    \/ \E h \in lfLive, idv \in IdArrays, valv \in ValArrays, ok \in BOOLEAN :
          pl_lazy_unpivot(h, idv, valv, ok)
          /\ UNCHANGED nonLazyVars
    \/ \E hs \in LfArrays, how \in 0..3, ok \in BOOLEAN : pl_lazy_concat(hs, how, ok)
          /\ UNCHANGED nonLazyVars
    \/ \E l \in lfLive, r \in lfLive : pl_lazy_join(l, r, <<>>, <<>>, 0)
          /\ UNCHANGED nonLazyVars
    \/ \E op \in TerminalOps, t \in Threads, h \in lfLive, ok \in BOOLEAN :
          TerminalBegin(op, t, h, ok)
          /\ UNCHANGED nonLazyVars
    \/ \E t \in Threads, ok \in BOOLEAN : ExecCallbacks(t, ok)
          /\ UNCHANGED nonLazyVars
    \/ \E t \in Threads : TerminalEnd(t)
          /\ UNCHANGED nonLazyVars
    \/ \E h \in lfLive : pl_lazy_clone(h)
          /\ UNCHANGED nonLazyVars
    \/ \E h \in lfLive : pl_lazy_schema(h)
          /\ UNCHANGED nonLazyVars
    \/ \E h \in lfLive : pl_lazy_frame_get_schema(h)
          /\ UNCHANGED nonLazyVars
    \/ \E h \in lfLive, o \in BOOLEAN : pl_lazy_explain(h, o)
          /\ UNCHANGED nonLazyVars
    \/ \E h \in lfLive : pl_lazy_frame_free(h)
          /\ UNCHANGED nonLazyVars

Spec == Init /\ [][Next]_vars
SpecRes == Init /\ [][NextRes]_vars

\* =============================================================== properties
ConsumingOps ==
    {"pl_lazy_select", "pl_lazy_with_columns", "pl_lazy_filter", "pl_lazy_limit",
     "pl_lazy_tail", "pl_lazy_sort", "pl_lazy_groupby_agg", "pl_lazy_explode",
     "pl_lazy_unpivot", "pl_lazy_join", "pl_lazy_join_asof", "pl_lazy_concat",
     "pl_lazy_collect", "pl_lazy_collect_streaming"}
CollectOps == {"pl_lazy_collect", "pl_lazy_collect_streaming"}
BorrowOps ==
    {"pl_lazy_clone", "pl_lazy_explain", "pl_lazy_schema", "pl_lazy_frame_get_schema"}
Completed(ops) == last' # last /\ last'.op \in ops

\* A step that completes a consuming call: every handle passed was live and
\* is released by this step (its drop count goes up by one), nothing else is
\* released, and the only handle that becomes live is the one returned on
\* success (a DataFrame, not a LazyFrame, for the collects).
ConsumingStep ==
    Completed(ConsumingOps) =>
        LET c == last'
            new == IF c.ok /\ c.op \notin CollectOps THEN {c.out} ELSE {}
        IN  /\ c.lfs # {} /\ c.lfs \subseteq lfLive /\ c.exprs \subseteq exLive
            /\ new \cap lfLive = {}
            /\ lfLive' = (lfLive \ c.lfs) \cup new
            /\ exLive' = exLive \ c.exprs
            /\ lfFrees' = [h \in LfIds |-> lfFrees[h] + (IF h \in c.lfs THEN 1 ELSE 0)]
            /\ exFrees' = [e \in ExIds |-> exFrees[e] + (IF e \in c.exprs THEN 1 ELSE 0)]
            /\ c.made = (IF c.ok THEN 1 ELSE 0)

\* After any sequence of calls: no handle was released twice, no released
\* handle is live, and the inputs of the last consuming call are released.
ReleasedOnce ==
    /\ \A h \in LfIds : lfFrees[h] <= 1 /\ (h \in lfLive => lfFrees[h] = 0)
    /\ \A e \in ExIds : exFrees[e] <= 1 /\ (e \in exLive => exFrees[e] = 0)
    /\ last.op \in ConsumingOps =>
          /\ \A h \in last.lfs : h \notin lfLive /\ lfFrees[h] = 1
          /\ \A e \in last.exprs : e \notin exLive /\ exFrees[e] = 1

\* C1: every plan-consuming operation releases every LazyFrame handle and
\* every Expr handle passed to it, on success and on error alike; on success
\* exactly one new handle becomes live; after any sequence of such calls no
\* input handle is still live and none has been released twice.
C1_ConsumingReleasesInputs == [][ConsumingStep]_vars /\ []ReleasedOnce

\* An error return of pl_lazy_explode that was passed two Expr handles.
C1_Witness ==
    /\ last.op = "pl_lazy_explode"
    /\ ~last.ok
    /\ Cardinality(last.exprs) = 2
    /\ last.exprs \cap exLive = {}

\* A step that completes a borrowing call: the handle passed stays live with
\* the plan it had, nothing is released, and the only new handle is the clone,
\* which holds the plan of its original.
BorrowingStep ==
    Completed(BorrowOps) =>
        LET c == last'
            new == IF c.op = "pl_lazy_clone" THEN {c.out} ELSE {}
        IN  /\ c.lfs # {} /\ c.lfs \subseteq lfLive
            /\ new \cap lfLive = {}
            /\ lfLive' = lfLive \cup new
            /\ \A h \in lfLive : lfPlan'[h] = lfPlan[h]
            /\ \A h \in new : \A o \in c.lfs : lfPlan'[h] = lfPlan[o]
            /\ lfFrees' = lfFrees
            /\ UNCHANGED exVars

\* Whatever was done to other handles (consumed, collected, freed, in any
\* order), a live handle holds the plan it was created with, and a collect
\* returns the frame of the plan its handle was created with.
Independent ==
    /\ \A h \in lfLive : lfPlan[h] = lfBorn[h]
    /\ (last.op \in CollectOps) =>
          \A h \in last.lfs : last.val = Frame(lfBorn[h], TRUE)

\* C2: pl_lazy_clone, pl_lazy_explain, pl_lazy_schema and
\* pl_lazy_frame_get_schema only borrow the plan: the handle stays live and
\* usable; a clone is independent of its original: consuming, collecting or
\* freeing either one leaves the other live and what it collects to unchanged.
C2_BorrowAndCloneIndependent == [][BorrowingStep]_vars /\ []Independent

\* A collect of a clone that leaves its original live: the collected handle
\* and a live one were created with the same plan, which is not a source's
\* (the source handle was consumed to build it), so one is a clone.
C2_Witness ==
    /\ last.op = "pl_lazy_collect"
    /\ last.ok
    /\ \E c \in last.lfs, h \in lfLive :
          /\ lfBorn[c] = lfBorn[h]
          /\ lfBorn[h].cols # SourceCols
          /\ lfFrees[1] = 1

\* The references to resource r held by the plans of live handles and by the
\* plans the threads are executing.
RECURSIVE RunRefs(_, _)
RunRefs(ts, r) ==
    IF ts = {} THEN 0
    ELSE LET t == CHOOSE x \in ts : TRUE
         IN (IF running[t] = Idle THEN 0 ELSE running[t].plan.res[r])
            + RunRefs(ts \ {t}, r)
Holders(r) == SumRefs(lfLive)[r] + RunRefs(Threads, r)

\* C3: for every plan created by a successful pl_lazy_frame_scan_stream or
\* pl_lazy_map_batches the teardown callback is invoked exactly once, and only
\* when the last plan that references the scanner / UDF (the original, every
\* clone, every derived plan, every plan being executed) has been released,
\* for any number of clones and any interleaving of releases and collects of
\* several threads.
C3_TeardownExactlyOnce ==
    \A r \in ResIds :
        /\ torn[r] <= 1
        /\ resKind[r] \in {"scanner", "udf"} =>
              /\ rc[r] = Holders(r)
              /\ torn[r] = (IF Holders(r) = 0 THEN 1 ELSE 0)

\* The teardowns of a scanner and of a batch sink over it have run after a
\* terminal operation returned, three handles that referenced the scanner
\* having been released.
C3_Witness ==
    /\ resKind[1] = "scanner"
    /\ torn[1] = 1
    /\ resKind[2] = "udf"
    /\ torn[2] = 1
    /\ last.op \in TerminalOps
    /\ Cardinality({h \in LfIds : lfFrees[h] = 1 /\ lfBorn[h].res[1] > 0}) = 3

\* C4: no external callback (stream factory, batch sink) is invoked by a
\* plan-construction operation, by pl_lazy_clone, by pl_lazy_explain or by
\* schema resolution; they are invoked only while a terminal operation runs.
C4_CallbacksOnlyInTerminalOps == cbLog \subseteq {"terminal"}

\* The schema of a plan over a scanner is resolved after a terminal
\* operation has invoked a callback.
C4_Witness ==
    /\ cbLog = {"terminal"}
    /\ last.op = "pl_lazy_frame_get_schema"
    /\ resKind[1] = "scanner"
    /\ \E h \in last.lfs : h \in lfLive /\ lfPlan[h].res[1] > 0

\* The schema of a plan, resolved from nothing but the plan.
SchemaOf(p) == IF p.bad THEN ErrVal ELSE [tag |-> "schema", fields |-> p.cols]
InspectOps == {"pl_lazy_explain", "pl_lazy_schema", "pl_lazy_frame_get_schema"}

\* What a schema or explain call returns is a function of the plan the handle
\* was created with (and of its own arguments); what it leaves behind on the
\* handle is at most the cached schema of that very plan.
SameResultEveryTime ==
    /\ \A h \in lfLive : lfCache[h] \in {NoCache, lfBorn[h].cols}
    /\ last.op = "pl_lazy_frame_get_schema" =>
          \A h \in last.lfs : last.val = SchemaOf(lfBorn[h])
    /\ last.op = "pl_lazy_schema" =>
          \A h \in last.lfs : last.val = SchemaJson(SchemaOf(lfBorn[h]))
    /\ last.op = "pl_lazy_explain" =>
          \A h \in last.lfs :
             \E o \in BOOLEAN : last.val = Explain(lfBorn[h], o)

\* A step that completes a schema or explain call changes no handle, no
\* plan, and the frame no plan would collect to.
InspectStep ==
    Completed(InspectOps) =>
        /\ UNCHANGED <<lfLive, lfPlan, lfFrees, nextLf, exVars, resVars>>
        /\ \A h \in lfLive : Frame(lfPlan'[h], TRUE) = Frame(lfPlan[h], TRUE)

\* C5: schema resolution and explain are idempotent and free of side
\* effects: any number of pl_lazy_frame_get_schema, pl_lazy_schema and
\* pl_lazy_explain calls, in any order, return the same result every time and
\* do not change the frame a later collect of the plan produces.
C5_SchemaExplainIdempotent == [][InspectStep]_vars /\ []SameResultEveryTime

\* An optimized explain of a plan whose schema was resolved before.
C5_Witness ==
    /\ last.op = "pl_lazy_explain"
    /\ last.ok
    /\ last.val.optimized
    /\ \E h \in last.lfs : h \in lfLive /\ lfCache[h] # NoCache

\* ======================================================= CSharpSinkUdf::call
\* The batches a sink UDF is given: some columns, and the chunks of the
\* struct series built from them (a chunk is modelled by its height).
RECURSIVE SumSeq(_)
SumSeq(q) == IF q = <<>> THEN 0 ELSE Head(q) + SumSeq(Tail(q))
Batches ==
    {[cols |-> c, chunks |-> ch] :
        c \in {<<"a">>, <<"a", "b">>},
        ch \in UNION {[1..n -> 0..MaxHeight] : n \in 1..MaxChunks}}
\* What the sink callback may do with a chunk: return a status, and on a
\* failure leave a NUL-terminated message in the error buffer it was given.
Statuses == {0 - 1, 0, 1}
Messages == {"", "e1", "e2"}

\* if status != 0 { ... return Err(..) }
StatusFailedPositive(status) == status > 0
StatusFailed(status) == status # 0

\* Ok(DataFrame::empty())
SinkResultPassThrough(df) ==
    [tag |-> "frame", cols |-> df.cols, rows |-> SumSeq(df.chunks)]
SinkResult(df) == EmptyFrame

\* call(&self, df): the struct series is built, its chunks taken, the 1 KB
\* error buffer zeroed.
CSharpSinkUdf_call(df) ==
    /\ skPc \in {"idle", "done"}
    /\ skPc' = "loop"
    /\ skBatch' = df
    /\ skPos' = 1
    /\ skCalls' = <<>>
    /\ skStat' = <<>>
    /\ skBuf' = ""
    /\ skRet' = NoVal
    /\ UNCHANGED nonSinkVars

\* One iteration of `for array_ref in chunks`: the chunk is exported and
\* passed to the callback; a nonzero status returns the error built from the
\* buffer.
CSharpSinkUdf_call_chunk(status, msg) ==
    /\ skPc = "loop"
    /\ skPos <= Len(skBatch.chunks)
    /\ (status = 0) => (msg = "")
    /\ LET buf == IF status = 0 THEN skBuf ELSE msg
       IN  /\ skCalls' = Append(skCalls, <<skPos, skBatch.chunks[skPos]>>)
           /\ skStat' = Append(skStat, <<status, msg>>)
           /\ skBuf' = buf
           /\ IF StatusFailed(status)
              THEN /\ skRet' = [tag |-> "error", msg |-> <<"C# Sink Failed: ", buf>>]
                   /\ skPc' = "done"
                   /\ UNCHANGED skPos
              ELSE /\ skPos' = skPos + 1
                   /\ UNCHANGED <<skRet, skPc>>
    /\ UNCHANGED <<skBatch, nonSinkVars>>

\* The loop is through: Ok(DataFrame::empty()).
CSharpSinkUdf_call_return ==
    /\ skPc = "loop"
    /\ skPos > Len(skBatch.chunks)
    /\ skRet' = SinkResult(skBatch)
    /\ skPc' = "done"
    /\ UNCHANGED <<skBatch, skPos, skCalls, skStat, skBuf, nonSinkVars>>

NextSink ==
    \/ \E df \in Batches : CSharpSinkUdf_call(df)
    \/ \E st \in Statuses, m \in Messages : CSharpSinkUdf_call_chunk(st, m)
    \/ CSharpSinkUdf_call_return

SpecSink == Init /\ [][NextSink]_vars

\* C6: the batch sink passes the chunks of a batch to the callback one at a
\* time, in chunk order, each exactly once; as soon as the callback returns a
\* nonzero status no later chunk is passed and the call returns an error
\* that carries the message of that first failure.
C6_SinkInOrderStopsAtFirstFailure ==
    LET n == Len(skCalls)
        ch == skBatch.chunks
    IN  /\ n <= Len(ch)
        /\ Len(skStat) = n
        /\ \A i \in 1..n : skCalls[i] = <<i, ch[i]>>
        /\ \A i \in 1..n :
              skStat[i][1] # 0 =>
                 /\ i = n
                 /\ skPc = "done"
                 /\ skRet = [tag |-> "error",
                             msg |-> <<"C# Sink Failed: ", skStat[i][2]>>]
        /\ (skPc = "done" /\ \A i \in 1..n : skStat[i][1] = 0) =>
              (n = Len(ch) /\ skRet.tag # "error")

\* A batch of three chunks whose second chunk failed with a negative status.
C6_Witness ==
    /\ skPc = "done"
    /\ Len(skBatch.chunks) = 3
    /\ Len(skCalls) = 2
    /\ skStat[2] = <<0 - 1, "e2">>
    /\ skRet.tag = "error"

\* C7: when the callback returns status 0 for every chunk, the call returns
\* an empty DataFrame (no columns, height 0) whatever batch it was given.
C7_SinkReturnsEmptyFrame ==
    (skPc = "done" /\ \A i \in 1..Len(skStat) : skStat[i][1] = 0) =>
        skRet = [tag |-> "frame", cols |-> <<>>, rows |-> 0]

\* A batch of two columns and three chunks, not all empty, went through.
C7_Witness ==
    /\ skPc = "done"
    /\ skBatch.cols = <<"a", "b">>
    /\ Len(skCalls) = 3
    /\ SumSeq(skBatch.chunks) > 0
    /\ \A i \in 1..3 : skStat[i][1] = 0
    /\ skRet.tag = "frame"

\* ================================================ datatypes.rs: DataType
\* A DataType is a record: k names the variant, the other fields are its
\* parameters. Option<T> is <<>> (None) or <<v>> (Some(v)).
NullPtr == 0
NonParam ==
    {"Boolean", "Int8", "Int16", "Int32", "Int64", "UInt8", "UInt16", "UInt32",
     "UInt64", "Float32", "Float64", "String", "Binary", "Date", "Time", "Null"}
TimeUnits == {"ns", "us", "ms"}
UnknownAny == [k |-> "Unknown", u |-> "Any"]

\* define_pl_datatype_kind!: the variants of PlDataTypeKind in the order of
\* their discriminants 0..22.
KindTable ==
    <<"Unknown", "Boolean", "Int8", "Int16", "Int32", "Int64", "UInt8", "UInt16",
      "UInt32", "UInt64", "Float32", "Float64", "String", "Date", "Datetime",
      "Time", "Duration", "Binary", "Null", "Struct", "List", "Categorical",
      "Decimal">>
\* `kind as i32`
KindCode(kind) == (CHOOSE i \in DOMAIN KindTable : KindTable[i] = kind) - 1

\* PlDataTypeKind::from_i32: Some(variant) for a declared discriminant.
from_i32_wrapping(code) == KindTable[(code % Len(KindTable)) + 1]
from_i32(code) ==
    IF code \in 0..(Len(KindTable) - 1) THEN KindTable[code + 1] ELSE "None"

\* PlDataTypeKind::to_default_datatype: the constructor of each row. fresh is
\* the identity of the Categories that Categories::random creates.
to_default_datatype(kind, fresh) ==
    CASE kind = "Unknown" -> UnknownAny
      [] kind = "Datetime" -> [k |-> "Datetime", unit |-> "us", tz |-> <<>>]
      [] kind = "Duration" -> [k |-> "Duration", unit |-> "us"]
      [] kind = "Struct" -> [k |-> "Struct", fields |-> <<>>]
      [] kind = "List" -> [k |-> "List", inner |-> [k |-> "Null"]]
      [] kind = "Categorical" ->
            [k |-> "Categorical", ns |-> "", phys |-> "U32", id |-> fresh]
      [] kind = "Decimal" -> [k |-> "Decimal", prec |-> <<>>, scale |-> <<>>]
      [] OTHER -> [k |-> kind]

\* map_dtype_to_kind: the match pattern of each row ignores the parameters;
\* a type no row matches is Unknown.
map_dtype_to_kind_default_only(dtype) ==
    IF dtype.k \in Range(KindTable)
       /\ (dtype.k \in NonParam \/ dtype = to_default_datatype(dtype.k, 1))
    THEN dtype.k ELSE "Unknown"
map_dtype_to_kind(dtype) ==
    IF dtype.k \in Range(KindTable) THEN dtype.k ELSE "Unknown"

\* A panic inside ffi_try! (or a catch_unwind written out) is caught and
\* recorded with set_error, as an Err is; a panic in an extern "C" function
\* without either leaves the function and aborts the process.
ffi_try(res) == IF res = "ok" THEN "value" ELSE "error"
extern_C(res) ==
    IF res = "panic" THEN "abort" ELSE IF res = "ok" THEN "value" ELSE "error"

\* A call that made no handle.
DtCall(op, arg, how, ret) ==
    /\ ~aborted
    /\ dtLast' = [op |-> op, arg |-> arg, how |-> how, ret |-> ret]
    /\ aborted' = (how = "abort")
\* Box::into_raw(Box::new(..)) of a new DataType.
NewDtHandle(op, arg, t) ==
    /\ nextDt <= MaxDt
    /\ DtCall(op, arg, "value", nextDt)
    /\ dtLive' = dtLive \cup {nextDt}
    /\ dtType' = [dtType EXCEPT ![nextDt] = t]
    /\ dtMade' = [dtMade EXCEPT ![nextDt] = [op |-> op, code |-> arg]]
    /\ nextDt' = nextDt + 1
    /\ UNCHANGED nonDtVars
NoDtHandle(op, arg, how, ret) ==
    /\ DtCall(op, arg, how, ret)
    /\ UNCHANGED <<dtLive, dtType, dtMade, nextDt, nonDtVars>>

pl_datatype_new_primitive(code, fresh) ==
    NewDtHandle("pl_datatype_new_primitive", code,
                IF from_i32(code) # "None"
                THEN to_default_datatype(from_i32(code), fresh) ELSE UnknownAny)

\* precision 0 is None; the scale is always Some.
pl_datatype_new_decimal(precision, scale) ==
    NewDtHandle("pl_datatype_new_decimal", <<precision, scale>>,
                [k |-> "Decimal",
                 prec |-> IF precision = 0 THEN <<>> ELSE <<precision>>,
                 scale |-> <<scale>>])

pl_datatype_new_categorical(fresh) ==
    NewDtHandle("pl_datatype_new_categorical", 0,
                [k |-> "Categorical", ns |-> "", phys |-> "U32", id |-> fresh])

\* assert!(!inner_ptr.is_null()) stands outside any catch.
pl_datatype_new_list(inner) ==
    /\ inner \in dtLive \cup {NullPtr}
    /\ LET how == extern_C(IF inner = NullPtr THEN "panic" ELSE "ok")
       IN  IF how = "value"
           THEN NewDtHandle("pl_datatype_new_list", inner,
                            [k |-> "List", inner |-> dtType[inner]])
           ELSE NoDtHandle("pl_datatype_new_list", inner, how, NullPtr)

\* 0 => ns, 1 => us, 2 => ms, _ => us
TimeUnitOf(code) ==
    CASE code = 0 -> "ns" [] code = 1 -> "us" [] code = 2 -> "ms" [] OTHER -> "us"

pl_datatype_new_duration(unit) ==
    NewDtHandle("pl_datatype_new_duration", unit,
                [k |-> "Duration", unit |-> TimeUnitOf(unit)])

\* A null tz_ptr is a naive Datetime; ptr_to_str(tz_ptr).unwrap() of a string
\* that is not UTF-8 panics, outside any catch. The zone is taken as given
\* (TimeZone::from_static validates nothing).
pl_datatype_new_datetime(unit_code, tz) ==
    LET how == extern_C(IF tz = "invalid" THEN "panic" ELSE "ok")
    IN  IF how = "value"
        THEN NewDtHandle("pl_datatype_new_datetime", <<unit_code, tz>>,
                         [k |-> "Datetime", unit |-> TimeUnitOf(unit_code),
                          tz |-> IF tz = "null" THEN <<>> ELSE <<tz>>])
        ELSE NoDtHandle("pl_datatype_new_datetime", <<unit_code, tz>>, how, NullPtr)

\* pl_datatype_new_struct, inside ffi_try!: field by field the name is read
\* (to_str().unwrap() panics on a name that is not UTF-8) and then the type
\* handle is taken over with Box::from_raw. names[i] tells whether the i-th
\* name is valid; the fields are named by their position.
pl_datatype_new_struct(names, types) ==
    LET n == Len(types)
        bad == {i \in 1..n : ~names[i]}
        stop == IF bad = {} THEN n + 1 ELSE CHOOSE i \in bad : \A j \in bad : i <= j
        taken == {types[i] : i \in 1..(stop - 1)}
        how == ffi_try(IF bad = {} THEN "ok" ELSE "panic")
    IN  /\ Len(names) = n
        /\ Range(types) \subseteq dtLive
        /\ IsInjective(types)
        /\ how = "value" => nextDt <= MaxDt
        /\ DtCall("pl_datatype_new_struct", n, how,
                  IF how = "value" THEN nextDt ELSE NullPtr)
        /\ dtLive' = (dtLive \ taken) \cup (IF how = "value" THEN {nextDt} ELSE {})
        /\ dtType' = [h \in DtIds |->
                        IF h \in taken THEN NoType
                        ELSE IF how = "value" /\ h = nextDt
                        THEN [k |-> "Struct",
                              fields |-> [i \in 1..n |-> <<i, dtType[types[i]]>>]]
                        ELSE dtType[h]]
        /\ dtMade' = IF how = "value"
                     THEN [dtMade EXCEPT ![nextDt] =
                              [op |-> "pl_datatype_new_struct", code |-> n]]
                     ELSE dtMade
        /\ nextDt' = IF how = "value" THEN nextDt + 1 ELSE nextDt
        /\ UNCHANGED nonDtVars

\* pl_datatype_clone, inside ffi_try!: &*ptr, a new handle on a copy.
pl_datatype_clone(ptr) ==
    /\ ptr \in dtLive
    /\ NewDtHandle("pl_datatype_clone", ptr, dtType[ptr])

\* pl_datatype_free: nothing for a null pointer.
pl_datatype_free(ptr) ==
    /\ ptr \in dtLive \cup {NullPtr}
    /\ DtCall("pl_datatype_free", ptr, "value", 0)
    /\ dtLive' = dtLive \ {ptr}
    /\ dtType' = [h \in DtIds |-> IF h = ptr THEN NoType ELSE dtType[h]]
    /\ UNCHANGED <<dtMade, nextDt, nonDtVars>>

\* pl_datatype_get_kind: 0 for a null pointer, else the discriminant.
pl_datatype_get_kind(ptr) ==
    /\ ptr \in dtLive \cup {NullPtr}
    /\ NoDtHandle("pl_datatype_get_kind", ptr, "value",
                  IF ptr = NullPtr THEN 0 ELSE KindCode(map_dtype_to_kind(dtType[ptr])))

\* pl_arrow_array_export / pl_arrow_schema_export (utils.rs): both pointers
\* are checked with assert!, outside any catch.
pl_arrow_array_export(ptrNull, outNull) ==
    NoDtHandle("pl_arrow_array_export", 0,
               extern_C(IF ptrNull \/ outNull THEN "panic" ELSE "ok"), 0)
pl_arrow_schema_export(ptrNull, outNull) ==
    NoDtHandle("pl_arrow_schema_export", 0,
               extern_C(IF ptrNull \/ outNull THEN "panic" ELSE "ok"), 0)

CatIds == {1, 2}
TzArgs == {"null", "UTC", "invalid"}
DtArrays ==
    {q \in UNION {[1..n -> dtLive] : n \in 0..MaxDt} : IsInjective(q)}
NameArrays == UNION {[1..n -> BOOLEAN] : n \in 0..MaxDt}

\* The exported functions of datatypes.rs and utils.rs, called with valid and
\* with invalid arguments (null handles, strings that are not UTF-8, codes out
\* of range).
NextDtype ==
    \/ \E c \in {0 - 1, 1, 20}, f \in CatIds : pl_datatype_new_primitive(c, f)
    \/ \E p \in {0, 10}, sc \in {2} : pl_datatype_new_decimal(p, sc)
    \/ \E f \in CatIds : pl_datatype_new_categorical(f)
    \/ \E i \in dtLive \cup {NullPtr} : pl_datatype_new_list(i)
    \/ \E u \in {0, 3} : pl_datatype_new_duration(u)
    \/ \E u \in {0, 3}, tz \in TzArgs : pl_datatype_new_datetime(u, tz)
    \/ \E ts \in DtArrays, ns \in NameArrays : pl_datatype_new_struct(ns, ts)
    \/ \E h \in dtLive : pl_datatype_clone(h)
    \/ \E h \in dtLive \cup {NullPtr} : pl_datatype_free(h)
    \/ \E h \in dtLive \cup {NullPtr} : pl_datatype_get_kind(h)
    \/ \E a \in BOOLEAN, b \in BOOLEAN : pl_arrow_array_export(a, b)
    \/ \E a \in BOOLEAN, b \in BOOLEAN : pl_arrow_schema_export(a, b)

SpecDtype == Init /\ [][NextDtype]_vars

\* C8: no exported operation aborts the process on ordinary invalid input (a
\* null handle, a string that is not valid UTF-8, an out-of-range code):
\* every call ends in a returned value or a recorded error, never in a panic
\* that escapes the exported function.
C8_NoCallAborts == ~aborted /\ dtLast.how \in {"value", "error"}

\* ------------------------------------------------ the kind of a DataType
\* The types a handle may hold when it reaches the shim from a schema or a
\* series: every row of the table with several choices of its parameters, and
\* types the table has no row for.
BaseTypes ==
    {[k |-> n] : n \in NonParam \cup {"Enum", "Int128"}}
    \cup {[k |-> "Unknown", u |-> u] : u \in {"Any", "Int"}}
    \cup {[k |-> "Datetime", unit |-> u, tz |-> z] :
            u \in TimeUnits, z \in {<<>>, <<"UTC">>}}
    \cup {[k |-> "Duration", unit |-> u] : u \in TimeUnits}
    \cup {[k |-> "Decimal", prec |-> p, scale |-> sc] :
            p \in {<<>>, <<10>>}, sc \in {<<>>, <<2>>}}
    \cup {[k |-> "Categorical", ns |-> ns, phys |-> ph, id |-> 1] :
            ns \in {"", "x"}, ph \in {"U32", "U8"}}
InnerTypes ==
    {[k |-> "Null"], [k |-> "Int64"],
     [k |-> "Datetime", unit |-> "ns", tz |-> <<"UTC">>]}
DTypes ==
    BaseTypes
    \cup {[k |-> "List", inner |-> t] : t \in InnerTypes}
    \cup {[k |-> "Struct", fields |-> <<>>]}
    \cup {[k |-> "Struct", fields |-> <<<<1, t>>>>] : t \in InnerTypes}
PrimCodes == (0 - 1)..Len(KindTable)

\* A handle on any type is at hand; kinds are read and types are made from
\* kind codes.
InitKind ==
    /\ InitLazy
    /\ InitSink
    /\ InitExt
    /\ dtLive = {1}
    /\ \E t \in DTypes : dtType = [h \in DtIds |-> IF h = 1 THEN t ELSE NoType]
    /\ nextDt = 2
    /\ dtMade = [h \in DtIds |-> IF h = 1 THEN [op |-> "given", code |-> 0] ELSE NoMade]
    /\ dtLast = InitCall
    /\ aborted = FALSE

NextKind ==
    \/ \E c \in PrimCodes, f \in CatIds : pl_datatype_new_primitive(c, f)
    \/ \E h \in dtLive : pl_datatype_get_kind(h)

SpecKind == InitKind /\ [][NextKind]_vars

\* C9: for every kind code c in 0..22 the kind read from the handle that
\* pl_datatype_new_primitive(c) made is c; for every code outside 0..22 the
\* handle holds a type whose kind is 0 (Unknown).
C9_KindOfPrimitiveIsItsCode ==
    (dtLast.op = "pl_datatype_get_kind" /\ dtLast.arg \in DtIds) =>
        LET made == dtMade[dtLast.arg]
        IN  made.op = "pl_datatype_new_primitive" =>
               /\ made.code \in 0..22 => dtLast.ret = made.code
               /\ made.code \notin 0..22 =>
                     (dtLast.ret = 0 /\ dtType[dtLast.arg].k = "Unknown")

\* The kind of the handle made from code 21 (Categorical) was read.
C9_Witness ==
    /\ dtLast.op = "pl_datatype_get_kind"
    /\ dtLast.arg = 2
    /\ dtMade[2] = [op |-> "pl_datatype_new_primitive", code |-> 21]
    /\ dtLast.ret = 21

ParamKinds == {"Datetime", "Duration", "Decimal", "List", "Struct", "Categorical"}
\* The parameters a kind is made with when only the kind is known.
HasDefaultParams(t) ==
    CASE t.k = "Datetime" -> t.unit = "us" /\ t.tz = <<>>
      [] t.k = "Duration" -> t.unit = "us"
      [] t.k = "Decimal" -> t.prec = <<>> /\ t.scale = <<>>
      [] t.k = "List" -> t.inner = [k |-> "Null"]
      [] t.k = "Struct" -> t.fields = <<>>
      [] t.k = "Categorical" -> t.ns = "" /\ t.phys = "U32"
      [] OTHER -> FALSE

\* C10: for every non-parametric type t, the type made from the kind of t is
\* t; for every parametric type it has the kind of t and the default
\* parameters, whatever parameters t had.
C10_KindRoundTrip ==
    \A h1 \in dtLive, h2 \in dtLive :
        (/\ dtMade[h2].op = "pl_datatype_new_primitive"
         /\ dtMade[h2].code = KindCode(map_dtype_to_kind(dtType[h1]))) =>
            /\ dtType[h1].k \in NonParam => dtType[h2] = dtType[h1]
            /\ dtType[h1].k \in ParamKinds =>
                  (dtType[h2].k = dtType[h1].k /\ HasDefaultParams(dtType[h2]))

\* A Datetime in nanoseconds with a time zone went through its kind code.
C10_Witness ==
    /\ dtType[1] = [k |-> "Datetime", unit |-> "ns", tz |-> <<"UTC">>]
    /\ 2 \in dtLive
    /\ dtMade[2] = [op |-> "pl_datatype_new_primitive", code |-> 14]
    /\ dtType[2] = [k |-> "Datetime", unit |-> "us", tz |-> <<>>]
\* ------------------------------------- the parameters of a DataType
\* Integer widths, scaled down: usize is UsizeWidth bits wide and i32 is
\* I32Width bits wide (64 and 32 in the build), usize the wider of the two.
UsizeWidth == 8
I32Width == 7
Pow2(n) == 2^n
\* `v as i32` of a usize: the low bits, read as a signed number.
AsI32Saturating(v) == Min(v, Pow2(I32Width - 1) - 1)
AsI32(v) ==
    LET m == v % Pow2(I32Width)
    IN  IF m >= Pow2(I32Width - 1) THEN m - Pow2(I32Width) ELSE m

\* pl_datatype_get_decimal_info, inside catch_unwind: nothing is written for
\* a null pointer; for Decimal(p, s) the out-parameters get
\* p.map(|v| v as i32).unwrap_or(38) and s.map(|v| v as i32).unwrap_or(9);
\* for any other type they get 0 and 0. ret is <<*precision, *scale>> as
\* written, <<>> when nothing was written.
pl_datatype_get_decimal_info(ptr) ==
    /\ ptr \in dtLive \cup {NullPtr}
    /\ NoDtHandle("pl_datatype_get_decimal_info", ptr, "value",
          IF ptr = NullPtr THEN <<>>
          ELSE IF dtType[ptr].k = "Decimal"
          THEN <<IF dtType[ptr].prec = <<>> THEN 38 ELSE AsI32(dtType[ptr].prec[1]),
                 IF dtType[ptr].scale = <<>> THEN 9 ELSE AsI32(dtType[ptr].scale[1])>>
          ELSE <<0, 0>>)

\* The usize values a caller passes: small ones, the largest an i32 holds, the
\* first it does not hold, a multiple of 2^I32Width, the largest usize.
UsizeArgs ==
    {0, 1, 38, Pow2(I32Width - 1) - 1, Pow2(I32Width - 1), Pow2(I32Width),
     Pow2(UsizeWidth) - 1}
\* pl_datatype_get_time_unit, inside catch_unwind: -1 for a null pointer and
\* for a type that is neither Datetime nor Duration.
UnitCodeFlat(u) == 1
UnitCode(u) == CASE u = "ns" -> 0 [] u = "us" -> 1 [] u = "ms" -> 2
pl_datatype_get_time_unit(ptr) ==
    /\ ptr \in dtLive \cup {NullPtr}
    /\ NoDtHandle("pl_datatype_get_time_unit", ptr, "value",
          IF ptr # NullPtr /\ dtType[ptr].k \in {"Datetime", "Duration"}
          THEN UnitCode(dtType[ptr].unit) ELSE 0 - 1)

\* ptr_to_str hands out the caller's bytes with a lifetime of the caller's
\* choosing and pl_datatype_new_datetime passes them to
\* TimeZone::from_static as a &'static str: a name short enough to be stored
\* inline is copied into the DataType, a longer one is kept as a reference
\* into the caller's buffer.
LongNames == {"America/Argentina/Buenos_Aires"}
StaticStrKept(tz) == tz \in LongNames
FreedStr == "<freed>"

\* The caller releases the buffer of the zone name it passed (a marshalled
\* string lives for the duration of the call): the DataType that kept a
\* reference to it now refers to released memory.
CallerReleasesString(h) ==
    /\ ~aborted
    /\ h \in dtLive
    /\ dtType[h].k = "Datetime"
    /\ dtType[h].tz # <<>>
    /\ StaticStrKept(dtType[h].tz[1])
    /\ dtType' = [dtType EXCEPT ![h].tz = <<FreedStr>>]
    /\ UNCHANGED <<dtLive, dtMade, nextDt, dtLast, aborted, nonDtVars>>

\* pl_datatype_get_timezone (ffi_try! written out): null for a null pointer
\* and for anything but Datetime(_, Some(tz)); else CString::new(tz.as_str()),
\* an error when the bytes hold a NUL. ret is <<>> for a null pointer returned,
\* <<s>> for the string s. Reading a zone name whose buffer was released is
\* undefined: the old bytes, other bytes, or bytes with a NUL among them.
pl_datatype_get_timezone(ptr, read) ==
    /\ ptr \in dtLive \cup {NullPtr}
    /\ LET t == IF ptr = NullPtr THEN NoType ELSE dtType[ptr]
           some == ptr # NullPtr /\ t.k = "Datetime" /\ t.tz # <<>>
           dangling == some /\ t.tz = <<FreedStr>>
       IN  /\ ~dangling => read = "bytes"
           /\ IF ~some
              THEN NoDtHandle("pl_datatype_get_timezone", ptr, ffi_try("ok"), <<>>)
              ELSE IF ~dangling
              THEN NoDtHandle("pl_datatype_get_timezone", ptr, ffi_try("ok"), t.tz)
              ELSE CASE read = "bytes" ->
                          NoDtHandle("pl_datatype_get_timezone", ptr, ffi_try("ok"),
                                     <<dtMade[ptr].code[2]>>)
                     [] read = "other" ->
                          NoDtHandle("pl_datatype_get_timezone", ptr, ffi_try("ok"),
                                     <<"?">>)
                     [] read = "nul" ->
                          NoDtHandle("pl_datatype_get_timezone", ptr, ffi_try("err"),
                                     <<>>)

UnitArgs == (0 - 1)..3
ZoneArgs == {"null", "UTC"} \cup LongNames

\* Types are made with all kinds of parameters and their parameters read
\* back.
NextParams ==
    \/ \E c \in {4, 22}, f \in CatIds : pl_datatype_new_primitive(c, f)
    \/ \E p \in UsizeArgs, sc \in {0, 2, Pow2(I32Width - 1)} :
          pl_datatype_new_decimal(p, sc)
    \/ \E u \in UnitArgs : pl_datatype_new_duration(u)
    \/ \E u \in UnitArgs, tz \in ZoneArgs : pl_datatype_new_datetime(u, tz)
    \/ \E h \in dtLive : CallerReleasesString(h)
    \/ \E h \in dtLive \cup {NullPtr} : pl_datatype_get_decimal_info(h)
    \/ \E h \in dtLive \cup {NullPtr} : pl_datatype_get_time_unit(h)
    \/ \E h \in dtLive \cup {NullPtr}, rd \in {"bytes", "other", "nul"} :
          pl_datatype_get_timezone(h, rd)
    \/ \E h \in dtLive : pl_datatype_free(h)

SpecParams == Init /\ [][NextParams]_vars

\* C11 as stated: the accessor reports (p, s) for a type made by
\* pl_datatype_new_decimal(p, s) with p > 0 and (38, s) with p = 0, whatever
\* p and s are.
C11_DecimalInfoReportsArgs ==
    (dtLast.op = "pl_datatype_get_decimal_info" /\ dtLast.arg \in DtIds) =>
        LET made == dtMade[dtLast.arg]
        IN  made.op = "pl_datatype_new_decimal" =>
               dtLast.ret = <<IF made.code[1] = 0 THEN 38 ELSE made.code[1],
                              made.code[2]>>

\* C11, amended: pl_datatype_get_decimal_info writes (0, 0) for a type that
\* is not Decimal, 38 for an absent precision and 9 for an absent scale; a
\* type made by pl_datatype_new_decimal(p, s) has scale s present and
\* precision absent exactly when p = 0, and the accessor reports (38, s) for
\* p = 0 and (p, s) for p > 0 as long as p and s fit an i32; a value that
\* does not fit is reported as the i32 congruent to it modulo 2^I32Width.
C11_DecimalInfoWithinI32 ==
    (dtLast.op = "pl_datatype_get_decimal_info" /\ dtLast.arg \in DtIds) =>
        LET t == dtType[dtLast.arg]
            made == dtMade[dtLast.arg]
            fits(v) == v < Pow2(I32Width - 1)
            isI32(v) == v \in (0 - Pow2(I32Width - 1))..(Pow2(I32Width - 1) - 1)
            wrapped(r, v) == isI32(r) /\ (r - v) % Pow2(I32Width) = 0
        IN  /\ t.k # "Decimal" => dtLast.ret = <<0, 0>>
            /\ (t.k = "Decimal" /\ t.prec = <<>>) => dtLast.ret[1] = 38
            /\ (t.k = "Decimal" /\ t.scale = <<>>) => dtLast.ret[2] = 9
            /\ made.op = "pl_datatype_new_decimal" =>
                  LET pr == made.code[1]
                      sc == made.code[2]
                  IN  /\ t.k = "Decimal"
                      /\ t.scale = <<sc>>
                      /\ (t.prec = <<>>) <=> (pr = 0)
                      /\ pr = 0 => dtLast.ret[1] = 38
                      /\ (pr > 0 /\ fits(pr)) => dtLast.ret[1] = pr
                      /\ fits(sc) => dtLast.ret[2] = sc
                      /\ pr > 0 => wrapped(dtLast.ret[1], pr)
                      /\ wrapped(dtLast.ret[2], sc)

\* The accessor reported a precision that fits an i32 and one that does not.
C11_Witness ==
    /\ dtLast.op = "pl_datatype_get_decimal_info"
    /\ dtLast.arg = 2
    /\ dtMade[1] = [op |-> "pl_datatype_new_decimal", code |-> <<38, 2>>]
    /\ dtMade[2] = [op |-> "pl_datatype_new_decimal",
                    code |-> <<Pow2(I32Width), 2>>]
    /\ dtLast.ret = <<0, 2>>
\* C12: for a unit code u in {0, 1, 2} and any time zone tz (or none) the
\* type made by pl_datatype_new_datetime(u, tz) has time unit u and time zone
\* tz (null when none), the type made by pl_datatype_new_duration(u) has time
\* unit u, and any other unit code gives Microseconds (code 1).
C12_UnitAndZoneAsGiven ==
    (/\ dtLast.op \in {"pl_datatype_get_time_unit", "pl_datatype_get_timezone"}
     /\ dtLast.arg \in DtIds) =>
        LET made == dtMade[dtLast.arg]
            unit(u) == IF u \in 0..2 THEN u ELSE 1
        IN  /\ (dtLast.op = "pl_datatype_get_time_unit"
                /\ made.op = "pl_datatype_new_duration") =>
                   dtLast.ret = unit(made.code)
            /\ (dtLast.op = "pl_datatype_get_time_unit"
                /\ made.op = "pl_datatype_new_datetime") =>
                   dtLast.ret = unit(made.code[1])
            /\ (dtLast.op = "pl_datatype_get_timezone"
                /\ made.op = "pl_datatype_new_datetime") =>
                   /\ dtLast.how = "value"
                   /\ dtLast.ret =
                        (IF made.code[2] = "null" THEN <<>> ELSE <<made.code[2]>>)
\* ====================================================== selectors.rs
\* A Selector is a tree: Wildcard, Matches(regex), ByName(names),
\* ByDType(DataTypeSelector), Intersect / Union / Difference of two Selectors.
\* Column names and patterns are sequences of characters.
ValA == <<"v", "a", "l", "_", "a">>
ValB == <<"v", "a", "l", "_", "b">>
Other == <<"o", "t", "h", "e", "r">>
SelNames == {ValA, ValB, Other}
SelTypes ==
    {[k |-> "Int64"], [k |-> "String"],
     [k |-> "Datetime", unit |-> "ns", tz |-> <<"UTC">>],
     [k |-> "Datetime", unit |-> "us", tz |-> <<>>],
     [k |-> "Duration", unit |-> "ms"],
     [k |-> "Duration", unit |-> "us"]}
\* A schema gives each of its columns a type.
ExampleSchema ==
    [n \in SelNames |-> IF n = ValB THEN [k |-> "String"] ELSE [k |-> "Int64"]]
SelSchemas == [{ValA, Other} -> SelTypes] \cup {ExampleSchema}

SelWildcard == [t |-> "Wildcard"]
SelMatches(re) == [t |-> "Matches", re |-> re]
SelByName(names) == [t |-> "ByName", names |-> names]
SelByDType(dts) == [t |-> "ByDType", dts |-> dts]
SelUnion(l, r) == [t |-> "Union", l |-> l, r |-> r]
SelIntersectAsUnion(l, r) == SelUnion(l, r)
SelIntersect(l, r) == [t |-> "Intersect", l |-> l, r |-> r]
SelDifference(l, r) == [t |-> "Difference", l |-> l, r |-> r]
SelNotOperandFirst(sel) == SelDifference(sel, SelWildcard)
SelNot(sel) == SelDifference(SelWildcard, sel)

\* The regex of a Matches selector is searched for in the name: a leading ^
\* anchors it at the start, a trailing $ at the end; the other characters
\* stand for themselves.
RegexMatch(re, name) ==
    LET atStart == re # <<>> /\ Head(re) = "^"
        re1 == IF atStart THEN Tail(re) ELSE re
        atEnd == re1 # <<>> /\ re1[Len(re1)] = "$"
        lit == IF atEnd THEN SubSeq(re1, 1, Len(re1) - 1) ELSE re1
        at(i) == \A j \in 1..Len(lit) : name[i + j - 1] = lit[j]
    IN  \E i \in 1..(Len(name) - Len(lit) + 1) :
            /\ at(i)
            /\ atStart => i = 1
            /\ atEnd => i = Len(name) - Len(lit) + 1

NumericKinds ==
    {"Int8", "Int16", "Int32", "Int64", "UInt8", "UInt16", "UInt32", "UInt64",
     "Float32", "Float64", "Decimal"}
\* DataTypeSelector::matches
DtsMatches(dts, dtype) ==
    CASE dts.d = "Empty" -> FALSE
      [] dts.d = "AnyOf" -> dtype \in dts.types
      [] dts.d = "Datetime" -> dtype.k = "Datetime"
      [] dts.d = "Duration" -> dtype.k = "Duration"
      [] dts.d = "Struct" -> dtype.k = "Struct"
      [] dts.d = "Numeric" -> dtype.k \in NumericKinds

\* The columns of a schema that a Selector selects.
RECURSIVE Selected(_, _)
Selected(sel, sch) ==
    CASE sel.t = "Wildcard" -> DOMAIN sch
      [] sel.t = "Matches" -> {n \in DOMAIN sch : RegexMatch(sel.re, n)}
      [] sel.t = "ByName" -> {n \in DOMAIN sch : n \in sel.names}
      [] sel.t = "ByDType" -> {n \in DOMAIN sch : DtsMatches(sel.dts, sch[n])}
      [] sel.t = "Union" -> Selected(sel.l, sch) \cup Selected(sel.r, sch)
      [] sel.t = "Intersect" -> Selected(sel.l, sch) \cap Selected(sel.r, sch)
      [] sel.t = "Difference" -> Selected(sel.l, sch) \ Selected(sel.r, sch)

\* dt_selector_single
dt_selector_single(dt) == [d |-> "AnyOf", types |-> {dt}]
\* map_i32_to_dtype_selector: codes 1..13, 15, 17 and 18 select the one type
\* of that kind, 14 any Datetime, 16 any Duration, 19 any Struct; 0 and every
\* other code select nothing.
map_i32_to_dtype_selector_default(kind) ==
    IF kind \in 1..19 THEN dt_selector_single(to_default_datatype(from_i32(kind), 1))
    ELSE [d |-> "Empty"]
map_i32_to_dtype_selector(kind) ==
    CASE kind \in (1..13) \cup {15, 17, 18} ->
            dt_selector_single([k |-> from_i32(kind)])
      [] kind = 14 -> [d |-> "Datetime"]
      [] kind = 16 -> [d |-> "Duration"]
      [] kind = 19 -> [d |-> "Struct"]
      [] OTHER -> [d |-> "Empty"]

\* Box::into_raw(Box::new(SelectorContext { inner })): a new handle; the
\* handles in used were taken over with Box::from_raw.
NewSelHandle(op, args, used, sel) ==
    /\ nextSel <= MaxSel
    /\ used \subseteq selLive
    /\ Cardinality(selLive \ used) < MaxSelLive
    /\ selLive' = (selLive \ used) \cup {nextSel}
    /\ selVal' = [h \in SelIds |->
                    IF h = nextSel THEN sel
                    ELSE IF h \in used THEN NoSel ELSE selVal[h]]
    /\ selMade' = [h \in SelIds |->
                     IF h = nextSel THEN [op |-> op, args |-> args, sel |-> sel]
                     ELSE IF h \in used THEN NoSelCall ELSE selMade[h]]
    /\ nextSel' = nextSel + 1
    /\ UNCHANGED nonSelVars

pl_selector_all == NewSelHandle("pl_selector_all", <<>>, {}, SelWildcard)
pl_selector_exclude(sel_ptr, names) ==
    /\ sel_ptr \in selLive
    /\ NewSelHandle("pl_selector_exclude", <<selMade[sel_ptr], names>>, {sel_ptr},
                    SelDifference(selVal[sel_ptr], SelByName(Range(names))))
pl_selector_starts_with(pattern) ==
    NewSelHandle("pl_selector_starts_with", <<pattern>>, {},
                 SelMatches(<<"^">> \o pattern))
pl_selector_ends_with(pattern) ==
    NewSelHandle("pl_selector_ends_with", <<pattern>>, {},
                 SelMatches(pattern \o <<"$">>))
pl_selector_contains(pattern) ==
    NewSelHandle("pl_selector_contains", <<pattern>>, {}, SelMatches(pattern))
pl_selector_match(pattern) ==
    NewSelHandle("pl_selector_match", <<pattern>>, {}, SelMatches(pattern))
pl_selector_by_dtype(kind) ==
    NewSelHandle("pl_selector_by_dtype", <<kind>>, {},
                 SelByDType(map_i32_to_dtype_selector(kind)))
pl_selector_numeric ==
    NewSelHandle("pl_selector_numeric", <<>>, {}, SelByDType([d |-> "Numeric"]))
pl_selector_and(left, right) ==
    /\ left # right
    /\ {left, right} \subseteq selLive
    /\ NewSelHandle("pl_selector_and", <<selMade[left], selMade[right]>>,
                    {left, right},
                    SelIntersect(selVal[left], selVal[right]))
pl_selector_or(left, right) ==
    /\ left # right
    /\ {left, right} \subseteq selLive
    /\ NewSelHandle("pl_selector_or", <<selMade[left], selMade[right]>>,
                    {left, right},
                    SelUnion(selVal[left], selVal[right]))
pl_selector_not(ptr) ==
    /\ ptr \in selLive
    /\ NewSelHandle("pl_selector_not", <<selMade[ptr]>>, {ptr}, SelNot(selVal[ptr]))
\* pl_selector_free: nothing for a null pointer.
pl_selector_free(ptr) ==
    /\ ptr \in selLive \cup {NullPtr}
    /\ selLive' = selLive \ {ptr}
    /\ selVal' = [h \in SelIds |-> IF h = ptr THEN NoSel ELSE selVal[h]]
    /\ selMade' = [h \in SelIds |-> IF h = ptr THEN NoSelCall ELSE selMade[h]]
    /\ UNCHANGED <<nextSel, nonSelVars>>

ValPrefix == <<"v", "a", "l", "_">>
NextSel ==
    \/ pl_selector_all
    \/ \E s \in selLive, n \in {Other} : pl_selector_exclude(s, <<n>>)
    \/ \E pt \in {ValPrefix} : pl_selector_starts_with(pt)
    \/ \E pt \in {<<"a">>} : pl_selector_ends_with(pt)
    \/ \E pt \in {<<"a">>} : pl_selector_contains(pt)
    \/ \E pt \in {<<"^">> \o ValPrefix} : pl_selector_match(pt)
    \/ \E c \in {5, 14, 16} : pl_selector_by_dtype(c)
    \/ pl_selector_numeric
    \/ \E l \in selLive, r \in selLive : pl_selector_and(l, r)
    \/ \E l \in selLive, r \in selLive : pl_selector_or(l, r)
    \/ \E s \in selLive : pl_selector_not(s)
    \/ \E s \in selLive \cup {NullPtr} : pl_selector_free(s)

SpecSel == Init /\ [][NextSel]_vars
\* C13: against every schema the columns selected by pl_selector_and(a, b)
\* are the intersection, and those selected by pl_selector_or(a, b) the union,
\* of the columns selected by a and by b; pl_selector_numeric intersected with
\* the pattern "^val_" selects exactly val_a from
\* {val_a: Int64, val_b: String, other: Int64}.
C13_AndOrAreIntersectionUnion ==
    \A h \in selLive :
        LET m == selMade[h]
        IN  /\ m.op = "pl_selector_and" =>
                 \A sch \in SelSchemas :
                     Selected(selVal[h], sch) =
                        Selected(m.args[1].sel, sch) \cap Selected(m.args[2].sel, sch)
            /\ m.op = "pl_selector_or" =>
                 \A sch \in SelSchemas :
                     Selected(selVal[h], sch) =
                        Selected(m.args[1].sel, sch) \cup Selected(m.args[2].sel, sch)
            /\ (/\ m.op = "pl_selector_and"
                /\ m.args[1].op = "pl_selector_numeric"
                /\ m.args[2].op = "pl_selector_match"
                /\ m.args[2].args = <<(<<"^">> \o ValPrefix)>>) =>
                 Selected(selVal[h], ExampleSchema) = {ValA}

\* The numeric selector and the pattern "^val_" were combined with
\* pl_selector_and.
C13_Witness ==
    \E h \in selLive :
        /\ selMade[h].op = "pl_selector_and"
        /\ selMade[h].args[1].op = "pl_selector_numeric"
        /\ selMade[h].args[2].op = "pl_selector_match"
        /\ Selected(selVal[h], ExampleSchema) = {ValA}

\* C14: against every schema pl_selector_not(s) selects exactly the columns
\* of the schema that s does not select, whatever s is made of; not(not(s))
\* selects the columns s selects, and not(s) and s share no column and
\* together select every column.
C14_NotIsComplement ==
    \A h \in selLive :
        LET m == selMade[h]
        IN  m.op = "pl_selector_not" =>
               \A sch \in SelSchemas :
                   LET mine == Selected(selVal[h], sch)
                       its == Selected(m.args[1].sel, sch)
                   IN  /\ mine = DOMAIN sch \ its
                       /\ mine \cap its = {}
                       /\ mine \cup its = DOMAIN sch
                       /\ m.args[1].op = "pl_selector_not" =>
                             mine = Selected(m.args[1].args[1].sel, sch)

\* The complement of the complement of an intersection was built, and it
\* selects val_a from the example schema.
C14_Witness ==
    \E h \in selLive :
        /\ selMade[h].op = "pl_selector_not"
        /\ selMade[h].args[1].op = "pl_selector_not"
        /\ selMade[h].args[1].args[1].op = "pl_selector_and"
        /\ Selected(selVal[h], ExampleSchema) = {ValA}

\* C15: the selector made from kind code 14 selects every Datetime column,
\* whatever its unit and time zone, and no other column; the one made from
\* code 16 selects every Duration column, whatever its unit, and no other.
C15_DatetimeDurationByKind ==
    \A h \in selLive :
        LET m == selMade[h]
        IN  m.op = "pl_selector_by_dtype" =>
               \A sch \in SelSchemas :
                   /\ m.args = <<14>> =>
                         Selected(selVal[h], sch) =
                            {n \in DOMAIN sch : sch[n].k = "Datetime"}
                   /\ m.args = <<16>> =>
                         Selected(selVal[h], sch) =
                            {n \in DOMAIN sch : sch[n].k = "Duration"}

\* The selector of code 14 is live; it selects a Datetime in nanoseconds with
\* a zone and one in microseconds without, and not a String.
C15_Witness ==
    \E h \in selLive :
        /\ selMade[h].op = "pl_selector_by_dtype"
        /\ selMade[h].args = <<14>>
        /\ Selected(selVal[h],
                    [n \in SelNames |->
                        IF n = ValA
                        THEN [k |-> "Datetime", unit |-> "ns", tz |-> <<"UTC">>]
                        ELSE IF n = ValB
                        THEN [k |-> "Datetime", unit |-> "us", tz |-> <<>>]
                        ELSE [k |-> "String"]]) = {ValA, ValB}
\* ========================================================= series.rs
\* A Series is its dtype and its elements; an element is <<>> (null) or <<v>>.
\* A pointer argument that may be null is <<>> (null) or <<what it points to>>.
MaxSerLen == 2
I64Width == 7       \* bits of an i64 and of a u64 (64 in the build)

\* The zip of the buffer with the validity array: Some(v) where valid.
FromValidityInverted(buf, validity) ==
    [i \in DOMAIN buf |-> IF validity[1][i] THEN <<>> ELSE <<buf[i]>>]
FromValidity(buf, validity) ==
    [i \in DOMAIN buf |-> IF validity[1][i] THEN <<buf[i]>> ELSE <<>>]
\* Series::new(name, slice) without validity, Series::new(name, &opts) with.
SeriesNew(dtype, buf, validity) ==
    [dtype |-> dtype,
     elems |-> IF validity = <<>> THEN [i \in DOMAIN buf |-> <<buf[i]>>]
               ELSE FromValidity(buf, validity)]

\* Box::into_raw(Box::new(SeriesContext { series })).
NewSerHandle(op, args, series) ==
    /\ nextSer <= MaxSer
    /\ serLive' = serLive \cup {nextSer}
    /\ serVal' = [serVal EXCEPT ![nextSer] = series]
    /\ serMade' = [serMade EXCEPT ![nextSer] = [op |-> op, args |-> args]]
    /\ nextSer' = nextSer + 1
    /\ UNCHANGED <<serLast, nonSerVars>>

\* pl_series_new_i32 / i64 / f64 / bool: ptr and validity are read as len
\* elements each.
pl_series_new_prim(op, kind, buf, validity) ==
    /\ validity # <<>> => Len(validity[1]) = Len(buf)
    /\ NewSerHandle(op, <<buf, validity>>, SeriesNew([k |-> kind], buf, validity))
pl_series_new_i32(buf, validity) ==
    pl_series_new_prim("pl_series_new_i32", "Int32", buf, validity)
pl_series_new_i64(buf, validity) ==
    pl_series_new_prim("pl_series_new_i64", "Int64", buf, validity)
pl_series_new_f64(buf, validity) ==
    pl_series_new_prim("pl_series_new_f64", "Float64", buf, validity)
pl_series_new_bool(buf, validity) ==
    pl_series_new_prim("pl_series_new_bool", "Boolean", buf, validity)

\* pl_series_new_str: a null pointer is None, bytes that are not UTF-8 are
\* the empty string (to_str().unwrap_or("")).
NotUtf8 == "\\xff"
CStrOrEmpty(bytes) == IF bytes = NotUtf8 THEN "" ELSE bytes
pl_series_new_str(strs) ==
    NewSerHandle("pl_series_new_str", <<strs>>,
                 [dtype |-> [k |-> "String"],
                  elems |-> [i \in DOMAIN strs |->
                               IF strs[i] = <<>> THEN <<>>
                               ELSE <<CStrOrEmpty(strs[i][1])>>]])

\* pl_series_new_decimal: the i128 Series is turned into a Decimal of the
\* given scale; an error of into_decimal is returned as a null pointer.
pl_series_new_decimal(buf, validity, scale, ok) ==
    /\ validity # <<>> => Len(validity[1]) = Len(buf)
    /\ IF ok
       THEN NewSerHandle("pl_series_new_decimal", <<buf, validity, scale>>,
                LET s128 == SeriesNew([k |-> "Int128"], buf, validity)
                IN  [dtype |-> [k |-> "Decimal", prec |-> <<>>, scale |-> <<scale>>],
                     elems |-> s128.elems])
       ELSE /\ serLast' = [op |-> "pl_series_new_decimal", ptr |-> NullPtr,
                            idx |-> 0, before |-> <<>>, ret |-> NullPtr,
                            out |-> <<>>]
            /\ UNCHANGED <<serLive, serVal, serMade, nextSer, nonSerVars>>

\* pl_series_free: nothing for a null pointer.
pl_series_free(ptr) ==
    /\ ptr \in serLive \cup {NullPtr}
    /\ serLive' = serLive \ {ptr}
    /\ serVal' = [h \in SerIds |-> IF h = ptr THEN NoSeries ELSE serVal[h]]
    /\ UNCHANGED <<serMade, nextSer, serLast, nonSerVars>>

\* An accessor call: the Series is borrowed, nothing but the out-parameters
\* changes. before and out are the values behind the out-parameters before
\* and after the call.
SerCall(op, ptr, idx, before, ret, out) ==
    /\ ptr \in serLive
    /\ serLast' = [op |-> op, ptr |-> ptr, idx |-> idx, before |-> before,
                   ret |-> ret, out |-> out]
    /\ UNCHANGED <<serLive, serVal, serMade, nextSer, nonSerVars>>

pl_series_len(ptr) ==
    SerCall("pl_series_len", ptr, 0, <<>>, Len(serVal[ptr].elems), <<>>)
pl_series_null_count(ptr) ==
    SerCall("pl_series_null_count", ptr, 0, <<>>,
            Cardinality({i \in DOMAIN serVal[ptr].elems : serVal[ptr].elems[i] = <<>>}),
            <<>>)

\* Series::get(idx): an error out of bounds, AnyValue::Null for a null, else
\* the AnyValue variant of the dtype with the value (and, for a Decimal, the
\* scale).
SeriesGet(series, idx) ==
    IF idx >= Len(series.elems) THEN [v |-> "Err"]
    ELSE IF series.elems[idx + 1] = <<>> THEN [v |-> "Null"]
    ELSE IF series.dtype.k = "Decimal"
    THEN [v |-> "Decimal", val |-> <<series.elems[idx + 1][1], series.dtype.scale[1]>>]
    ELSE [v |-> series.dtype.k, val |-> <<series.elems[idx + 1][1]>>]

\* if idx >= len { return false }, then true for AnyValue::Null only.
IsNullAtOrPast(series, idx) ==
    idx >= Len(series.elems) \/ series.elems[idx + 1] = <<>>
IsNullAt(series, idx) ==
    IF idx >= Len(series.elems) THEN FALSE
    ELSE SeriesGet(series, idx).v = "Null"
pl_series_is_null_at(ptr, idx) ==
    SerCall("pl_series_is_null_at", ptr, idx, <<>>, IsNullAt(serVal[ptr], idx), <<>>)

\* The out-parameters are written in the matching arms only.
OutZeroedOnFailure(hit, val, before) ==
    IF hit THEN val ELSE [i \in DOMAIN before |-> 0]
OutAfter(hit, val, before) == IF hit THEN val ELSE before
\* if idx >= len { return false }; match series.get(idx) { the variants in
\* accepts => write and true, _ => false }.
ScalarGet(op, accepts, ptr, idx, before) ==
    /\ ptr \in serLive
    /\ LET av == SeriesGet(serVal[ptr], idx)
           hit == idx < Len(serVal[ptr].elems) /\ av.v \in accepts
       IN  SerCall(op, ptr, idx, before, hit,
                   OutAfter(hit, IF hit THEN av.val ELSE <<>>, before))
\* v as i64: a UInt64 of 2^63 or more comes out negative; the narrower
\* integers are widened without loss.
AsI64(kind, v) ==
    IF kind = "UInt64" /\ v >= Pow2(I64Width - 1) THEN v - Pow2(I64Width) ELSE v
pl_series_get_i64(ptr, idx, before) ==
    /\ ptr \in serLive
    /\ LET av == SeriesGet(serVal[ptr], idx)
           hit == /\ idx < Len(serVal[ptr].elems)
                  /\ av.v \in {"Int64", "Int32", "Int16", "Int8", "UInt64", "UInt32"}
       IN  SerCall("pl_series_get_i64", ptr, idx, before, hit,
                   OutAfter(hit, IF hit THEN <<AsI64(av.v, av.val[1])>> ELSE <<>>,
                            before))
pl_series_get_f64(ptr, idx, before) ==
    ScalarGet("pl_series_get_f64", {"Float64", "Float32"}, ptr, idx, before)
pl_series_get_bool(ptr, idx, before) ==
    ScalarGet("pl_series_get_bool", {"Boolean"}, ptr, idx, before)
pl_series_get_decimal(ptr, idx, before) ==
    ScalarGet("pl_series_get_decimal", {"Decimal"}, ptr, idx, before)
pl_series_get_date(ptr, idx, before) ==
    ScalarGet("pl_series_get_date", {"Date"}, ptr, idx, before)
pl_series_get_time(ptr, idx, before) ==
    ScalarGet("pl_series_get_time", {"Time"}, ptr, idx, before)
pl_series_get_datetime(ptr, idx, before) ==
    ScalarGet("pl_series_get_datetime", {"Datetime"}, ptr, idx, before)
pl_series_get_duration(ptr, idx, before) ==
    ScalarGet("pl_series_get_duration", {"Duration"}, ptr, idx, before)
\* pl_series_get_str returns the string, or a null pointer.
pl_series_get_str(ptr, idx) ==
    /\ ptr \in serLive
    /\ LET av == SeriesGet(serVal[ptr], idx)
           hit == idx < Len(serVal[ptr].elems) /\ av.v = "String"
       IN  SerCall("pl_series_get_str", ptr, idx, <<>>,
                   IF hit THEN av.val ELSE <<>>, <<>>)
\* ========================================================= schema.rs
\* A Schema is a sequence of <<name, dtype>> fields with distinct names.
\* CStr::to_string_lossy: bytes that are not UTF-8 become U+FFFD.
Lossy(bytes) == IF bytes = NotUtf8 THEN "\\ufffd" ELSE bytes
\* Schema::insert (an IndexMap): a new name is appended, a name already
\* there keeps its place and gets the new dtype.
SchemaInsertAtEnd(sch, name, dtype) ==
    Append(SelectSeq(sch, LAMBDA f : f[1] # name), <<name, dtype>>)
SchemaInsert(sch, name, dtype) ==
    IF \E i \in DOMAIN sch : sch[i][1] = name
    THEN [i \in DOMAIN sch |-> IF sch[i][1] = name THEN <<name, dtype>> ELSE sch[i]]
    ELSE Append(sch, <<name, dtype>>)
\* for i in 0..len { schema.insert(lossy(names[i]), (*dtypes[i]).dtype.clone()) }
RECURSIVE SchemaFromPairs(_, _)
SchemaFromPairs(sch, pairs) ==
    IF pairs = <<>> THEN sch
    ELSE SchemaFromPairs(SchemaInsert(sch, Lossy(Head(pairs)[1]), Head(pairs)[2]),
                         Tail(pairs))

\* pl_schema_new: pairs[i] is <<the bytes of names[i], the DataType behind
\* dtypes[i]>>; the DataType handles are borrowed.
pl_schema_new(pairs) ==
    /\ nextSch <= MaxSch
    /\ schLive' = schLive \cup {nextSch}
    /\ schVal' = [schVal EXCEPT ![nextSch] = SchemaFromPairs(<<>>, pairs)]
    /\ schMade' = [schMade EXCEPT ![nextSch] = [op |-> "pl_schema_new", args |-> pairs]]
    /\ nextSch' = nextSch + 1
    /\ UNCHANGED <<schLast, nonSchVars>>

SchCall(op, ptr, idx, before, ret, out) ==
    /\ schLast' = [op |-> op, ptr |-> ptr, idx |-> idx, before |-> before,
                   ret |-> ret, out |-> out]
    /\ UNCHANGED <<schLive, schVal, schMade, nextSch, nonSchVars>>

\* pl_schema_len: 0 for a null pointer.
pl_schema_len(ptr) ==
    /\ ptr \in schLive \cup {NullPtr}
    /\ SchCall("pl_schema_len", ptr, 0, <<>>,
               IF ptr = NullPtr THEN 0 ELSE Len(schVal[ptr]), <<>>)

\* pl_schema_get_at_index: *name_out gets a copy of the name and *dtype_out a
\* new Box with a copy of the dtype, or both get null past the end. out is
\* <<*name_out, *dtype_out>>, a pointer being <<>> (null) or <<pointee>>.
GetAtIndexKeeps(sch, index, before) ==
    IF index < Len(sch) THEN <<<<sch[index + 1][1]>>, <<sch[index + 1][2]>>>>
    ELSE before
GetAtIndex(sch, index, before) ==
    IF index < Len(sch) THEN <<<<sch[index + 1][1]>>, <<sch[index + 1][2]>>>>
    ELSE <<<<>>, <<>>>>
pl_schema_get_at_index(ptr, index, before) ==
    /\ ptr \in schLive
    /\ SchCall("pl_schema_get_at_index", ptr, index, before, 0,
               GetAtIndex(schVal[ptr], index, before))

\* pl_schema_free: nothing for a null pointer.
pl_schema_free(ptr) ==
    /\ ptr \in schLive \cup {NullPtr}
    /\ schLive' = schLive \ {ptr}
    /\ schVal' = [h \in SchIds |-> IF h = ptr THEN <<>> ELSE schVal[h]]
    /\ UNCHANGED <<schMade, nextSch, schLast, nonSchVars>>
\* pl_arrow_to_series: a Series of any dtype reaches the shim as an imported
\* Arrow array.
pl_arrow_to_series(series) == NewSerHandle("pl_arrow_to_series", <<>>, series)

\* ------------------------------------------- Series and Schema calls
MaxPairs == 3
SeqsUpTo(S, n) == UNION {[1..k -> S] : k \in 0..n}
Validities(n) == {<<>>} \cup {<<v>> : v \in [1..n -> BOOLEAN]}
NumBufs == SeqsUpTo({7, 0 - 7}, MaxSerLen)
BoolBufs == SeqsUpTo(BOOLEAN, MaxSerLen)
StrBufs == SeqsUpTo({<<>>, <<"x">>, <<NotUtf8>>}, MaxSerLen)
ImportedSeries ==
    {[dtype |-> t, elems |-> e] :
        t \in {[k |-> "Date"], [k |-> "Time"], [k |-> "UInt8"], [k |-> "UInt64"],
               [k |-> "Float32"], [k |-> "Duration", unit |-> "ms"],
               [k |-> "Datetime", unit |-> "us", tz |-> <<>>]},
        e \in {<<>>, <<<<3>>, <<>>>>}}
    \cup {[dtype |-> [k |-> "UInt64"], elems |-> <<<<Pow2(I64Width) - 1>>>>]}
Sentinel == <<99>>
SchemaPairs ==
    SeqsUpTo({"a", "b", NotUtf8} \X {[k |-> "Int64"], [k |-> "String"]}, MaxPairs)

\* Series and Schemas share no state: the caller's calls on the one are not
\* interleaved with its calls on the other.
OnSeries == nextSch = 1 /\ schLast = NoSchCall
OnSchemas == nextSer = 1 /\ serLast = NoSerCall
NextData ==
    \/ \E b \in NumBufs, v \in Validities(MaxSerLen) :
          OnSeries /\ pl_series_new_i32(b, v)
    \/ \E b \in NumBufs, v \in Validities(MaxSerLen) :
          OnSeries /\ pl_series_new_i64(b, v)
    \/ \E b \in NumBufs, v \in Validities(MaxSerLen) :
          OnSeries /\ pl_series_new_f64(b, v)
    \/ \E b \in BoolBufs, v \in Validities(MaxSerLen) :
          OnSeries /\ pl_series_new_bool(b, v)
    \/ \E b \in StrBufs :
          OnSeries /\ pl_series_new_str(b)
    \/ \E b \in NumBufs, v \in Validities(MaxSerLen), ok \in BOOLEAN :
          OnSeries /\ pl_series_new_decimal(b, v, 2, ok)
    \/ \E sr \in ImportedSeries :
          OnSeries /\ pl_arrow_to_series(sr)
    \/ \E h \in serLive \cup {NullPtr} :
          OnSeries /\ pl_series_free(h)
    \/ \E h \in serLive :
          OnSeries /\ pl_series_len(h)
    \/ \E h \in serLive :
          OnSeries /\ pl_series_null_count(h)
    \/ \E h \in serLive, i \in 0..MaxSerLen :
          OnSeries /\ pl_series_is_null_at(h, i)
    \/ \E h \in serLive, i \in 0..MaxSerLen :
          OnSeries /\ pl_series_get_i64(h, i, Sentinel)
    \/ \E h \in serLive, i \in 0..MaxSerLen :
          OnSeries /\ pl_series_get_f64(h, i, Sentinel)
    \/ \E h \in serLive, i \in 0..MaxSerLen :
          OnSeries /\ pl_series_get_bool(h, i, Sentinel)
    \/ \E h \in serLive, i \in 0..MaxSerLen :
          OnSeries /\ pl_series_get_decimal(h, i, Sentinel \o Sentinel)
    \/ \E h \in serLive, i \in 0..MaxSerLen :
          OnSeries /\ pl_series_get_date(h, i, Sentinel)
    \/ \E h \in serLive, i \in 0..MaxSerLen :
          OnSeries /\ pl_series_get_time(h, i, Sentinel)
    \/ \E h \in serLive, i \in 0..MaxSerLen :
          OnSeries /\ pl_series_get_datetime(h, i, Sentinel)
    \/ \E h \in serLive, i \in 0..MaxSerLen :
          OnSeries /\ pl_series_get_duration(h, i, Sentinel)
    \/ \E h \in serLive, i \in 0..MaxSerLen :
          OnSeries /\ pl_series_get_str(h, i)
    \/ \E ps \in SchemaPairs :
          OnSchemas /\ pl_schema_new(ps)
    \/ \E h \in schLive \cup {NullPtr} :
          OnSchemas /\ pl_schema_len(h)
    \/ \E h \in schLive, i \in 0..(MaxPairs + 1) :
          OnSchemas /\ pl_schema_get_at_index(h, i, <<Sentinel, Sentinel>>)
    \/ \E h \in schLive \cup {NullPtr} :
          OnSchemas /\ pl_schema_free(h)

SpecData == Init /\ [][NextData]_vars

\* C16: a Series made by pl_series_new_i32 / i64 / f64 / bool / decimal from a
\* buffer of n values and a validity array has length n, element i is null
\* exactly when validity[i] is false and a non-null element is buffer[i];
\* without a validity array it has no null; a Series made by
\* pl_series_new_str has a null exactly where the pointer is null. The same
\* is observed through pl_series_len, pl_series_null_count and
\* pl_series_is_null_at.
C16_SeriesFromBuffers ==
    \A h \in serLive :
        LET m == serMade[h]
            e == serVal[h].elems
            nulls == {i \in DOMAIN e : e[i] = <<>>}
            seen == serLast.op # "none" /\ serLast.ptr = h
        IN  /\ m.op \in {"pl_series_new_i32", "pl_series_new_i64",
                         "pl_series_new_f64", "pl_series_new_bool",
                         "pl_series_new_decimal"} =>
                 LET buf == m.args[1]
                     validity == m.args[2]
                 IN  /\ Len(e) = Len(buf)
                     /\ \A i \in DOMAIN buf :
                           /\ (e[i] = <<>>) <=> (validity # <<>> /\ ~validity[1][i])
                           /\ e[i] # <<>> => e[i] = <<buf[i]>>
                     /\ validity = <<>> => nulls = {}
                     /\ (seen /\ serLast.op = "pl_series_len") =>
                           serLast.ret = Len(buf)
                     /\ (seen /\ serLast.op = "pl_series_null_count"
                         /\ validity = <<>>) => serLast.ret = 0
                     /\ (seen /\ serLast.op = "pl_series_is_null_at"
                         /\ serLast.idx < Len(buf)) =>
                           serLast.ret =
                              (validity # <<>> /\ ~validity[1][serLast.idx + 1])
            /\ m.op = "pl_series_new_str" =>
                 LET strs == m.args[1]
                 IN  /\ Len(e) = Len(strs)
                     /\ \A i \in DOMAIN strs : (e[i] = <<>>) <=> (strs[i] = <<>>)
                     /\ (seen /\ serLast.op = "pl_series_is_null_at"
                         /\ serLast.idx < Len(strs)) =>
                           serLast.ret = (strs[serLast.idx + 1] = <<>>)

\* A Series was made from two values of which the second is not valid, and
\* its second element was found to be null.
C16_Witness ==
    /\ 1 \in serLive
    /\ serMade[1] = [op |-> "pl_series_new_i64",
                     args |-> <<(<<7, 0 - 7>>), (<<(<<TRUE, FALSE>>)>>)>>]
    /\ serVal[1].elems = <<(<<7>>), <<>>>>
    /\ serLast.op = "pl_series_is_null_at"
    /\ serLast.idx = 1
    /\ serLast.ret = TRUE

ScalarGetters ==
    {"pl_series_get_i64", "pl_series_get_f64", "pl_series_get_bool",
     "pl_series_get_decimal", "pl_series_get_date", "pl_series_get_time",
     "pl_series_get_datetime", "pl_series_get_duration"}

\* C17: an index at or past the end is not an error: pl_series_is_null_at
\* returns false, every pl_series_get_* returns false (pl_series_get_str a
\* null pointer), and pl_schema_get_at_index writes null to the name and to
\* the type out-parameter.
C17_OutOfRangeIsNotAnError ==
    /\ (/\ serLast.op \in ScalarGetters \cup {"pl_series_is_null_at", "pl_series_get_str"}
        /\ serLast.ptr \in serLive
        /\ serLast.idx >= Len(serVal[serLast.ptr].elems)) =>
           /\ serLast.op = "pl_series_get_str" => serLast.ret = <<>>
           /\ serLast.op # "pl_series_get_str" => serLast.ret = FALSE
    /\ (/\ schLast.op = "pl_schema_get_at_index"
        /\ schLast.ptr \in schLive
        /\ schLast.idx >= Len(schVal[schLast.ptr])) =>
           schLast.out = <<<<>>, <<>>>>

\* Index 0 of a Series without elements was asked whether it is null.
C17_Witness ==
    /\ serLast.op = "pl_series_is_null_at"
    /\ serLast.ptr \in serLive
    /\ serVal[serLast.ptr].elems = <<>>
    /\ serLast.idx = 0
    /\ serLast.ret = FALSE

\* The kinds of element each scalar accessor is for.
GetterKinds(op) ==
    CASE op = "pl_series_get_i64" ->
            {"Int8", "Int16", "Int32", "Int64", "UInt32", "UInt64"}
      [] op = "pl_series_get_f64" -> {"Float32", "Float64"}
      [] op = "pl_series_get_bool" -> {"Boolean"}
      [] op = "pl_series_get_decimal" -> {"Decimal"}
      [] op = "pl_series_get_date" -> {"Date"}
      [] op = "pl_series_get_time" -> {"Time"}
      [] op = "pl_series_get_datetime" -> {"Datetime"}
      [] op = "pl_series_get_duration" -> {"Duration"}

\* C18: a scalar accessor returns true only for an index in range whose
\* element is not null and of a kind the accessor is for; when it returns
\* false the out-parameters hold what they held before the call.
C18_ScalarGetWritesOnlyOnSuccess ==
    (serLast.op \in ScalarGetters /\ serLast.ptr \in serLive) =>
        LET sr == serVal[serLast.ptr]
        IN  /\ serLast.ret = TRUE =>
                 /\ serLast.idx < Len(sr.elems)
                 /\ sr.elems[serLast.idx + 1] # <<>>
                 /\ sr.dtype.k \in GetterKinds(serLast.op)
            /\ serLast.ret = FALSE => serLast.out = serLast.before

\* pl_series_get_f64 was refused on an Int64 element that is there and not
\* null, and left its out-parameter alone.
C18_Witness ==
    /\ serLast.op = "pl_series_get_f64"
    /\ serLast.ptr \in serLive
    /\ serVal[serLast.ptr].dtype.k = "Int64"
    /\ serLast.idx = 0
    /\ Len(serVal[serLast.ptr].elems) > 0
    /\ serVal[serLast.ptr].elems[1] = <<7>>
    /\ serLast.ret = FALSE
    /\ serLast.out = Sentinel

\* C19: the Schema made by pl_schema_new from a list of (name, type) pairs
\* holds each distinct name once, at the position of its first occurrence
\* among the distinct names, with the type of its last occurrence; its length
\* is the number of distinct names. pl_schema_len and pl_schema_get_at_index
\* report the same.
C19_SchemaKeepsFirstSeenOrder ==
    \A h \in schLive :
        schMade[h].op = "pl_schema_new" =>
            LET pairs == schMade[h].args
                sch == schVal[h]
                firsts == {i \in DOMAIN pairs :
                              \A k \in 1..(i - 1) : pairs[k][1] # pairs[i][1]}
                pos(i) == Cardinality({k \in firsts : k <= i})
                lastOf(i) == CHOOSE k \in DOMAIN pairs :
                                /\ pairs[k][1] = pairs[i][1]
                                /\ \A j \in DOMAIN pairs :
                                      pairs[j][1] = pairs[i][1] => j <= k
                seen == schLast.op # "none" /\ schLast.ptr = h
            IN  /\ Len(sch) = Cardinality({pairs[i][1] : i \in DOMAIN pairs})
                /\ \A a \in DOMAIN sch, b \in DOMAIN sch :
                      sch[a][1] = sch[b][1] => a = b
                /\ \A i \in firsts :
                      sch[pos(i)] = <<Lossy(pairs[i][1]), pairs[lastOf(i)][2]>>
                /\ (seen /\ schLast.op = "pl_schema_len") =>
                      schLast.ret = Cardinality(firsts)
                /\ (seen /\ schLast.op = "pl_schema_get_at_index") =>
                      \A i \in firsts :
                          schLast.idx = pos(i) - 1 =>
                             schLast.out = <<<<Lossy(pairs[i][1])>>,
                                             <<pairs[lastOf(i)][2]>>>>

\* A Schema was made from (a, Int64), (b, Int64), (a, String): it holds a as
\* String before b, as read at index 0.
C19_Witness ==
    /\ 1 \in schLive
    /\ schMade[1].args = << <<"a", [k |-> "Int64"]>>, <<"b", [k |-> "Int64"]>>,
                            <<"a", [k |-> "String"]>> >>
    /\ schVal[1] = << <<"a", [k |-> "String"]>>, <<"b", [k |-> "Int64"]>> >>
    /\ schLast.op = "pl_schema_get_at_index"
    /\ schLast.idx = 0
    /\ schLast.out = <<(<<"a">>), (<<[k |-> "String"]>>)>>
\* ------------------------------------------- record batch import (io.rs)
MaxFields == 2      \* fields of a struct root
MaxRecLen == 1      \* length of a record and of a child array

FieldNames == {"a", "b"}
\* A root is the (field, array) pair behind the two C pointers: a struct
\* array with its child fields and arrays, or an array of another type. A
\* child is <<name, length, positions of its nulls>>.
ChildArrays ==
    {<<nm, n, ns>> : nm \in FieldNames, n \in 0..MaxRecLen, ns \in SUBSET (1..MaxRecLen)}
StructRoots ==
    {[struct |-> TRUE, name |-> "root", len |-> n, nulls |-> {}, children |-> c] :
        n \in 0..MaxRecLen,
        c \in SeqsUpTo({ch \in ChildArrays : ch[3] \subseteq 1..ch[2]}, MaxFields)}
PlainRoots ==
    {[struct |-> FALSE, name |-> ch[1], len |-> ch[2], nulls |-> ch[3],
      children |-> <<>>] : ch \in {c \in ChildArrays : c[3] \subseteq 1..c[2]}}
Roots == StructRoots \cup PlainRoots

\* ffi::import_array_from_c: a struct array is built by StructArray::try_new,
\* which refuses children whose length is not the array's.
ImportArray(root, importable) ==
    IF ~importable THEN <<>>
    ELSE IF root.struct /\ \E i \in DOMAIN root.children :
                               root.children[i][2] # root.len
    THEN <<>>
    ELSE <<root>>

\* DataFrame::new(columns): names must be unique and heights equal.
DataFrameNew(columns) ==
    IF \E i \in DOMAIN columns, j \in DOMAIN columns :
          i # j /\ (columns[i].name = columns[j].name \/ columns[i].len # columns[j].len)
    THEN <<>>
    ELSE <<columns>>

RecordColumnsAsOne(array) ==
    <<[name |-> array.name, len |-> array.len, nulls |-> array.nulls]>>
\* match array.as_any().downcast_ref::<StructArray>(): the children zipped
\* with the fields, or the array itself under the root field's name.
RecordColumns(array) ==
    IF array.struct
    THEN [i \in DOMAIN array.children |->
            [name |-> array.children[i][1], len |-> array.children[i][2],
             nulls |-> array.children[i][3]]]
    ELSE <<[name |-> array.name, len |-> array.len, nulls |-> array.nulls]>>

pl_dataframe_from_arrow_record_batch(array_null, schema_null, root, importable, readable) ==
    /\ rbLast' =
         [op |-> "pl_dataframe_from_arrow_record_batch",
          array_null |-> array_null, schema_null |-> schema_null,
          root |-> root,
          ret |-> IF array_null \/ schema_null THEN <<>>
                  ELSE LET array == ImportArray(root, importable)
                       IN  IF array = <<>> \/ ~readable THEN <<>>
                           ELSE DataFrameNew(RecordColumns(array[1]))]
    /\ UNCHANGED nonRbVars

\* The function keeps nothing between calls: a behaviour is one call.
NextBatch ==
    \E an \in BOOLEAN, sn \in BOOLEAN, root \in Roots,
       importable \in BOOLEAN, readable \in BOOLEAN :
        /\ rbLast = NoRbCall
        /\ pl_dataframe_from_arrow_record_batch(an, sn, root, importable, readable)

SpecBatch == Init /\ [][NextBatch]_vars

\* C20: the frame pl_dataframe_from_arrow_record_batch returns for a struct
\* root has exactly the root's fields as columns (as many, with the same
\* names in the same order, each as long as the record), and for a root of
\* another type exactly one column, named after the root field.
C20_RecordMapsToColumns ==
    (rbLast.op = "pl_dataframe_from_arrow_record_batch" /\ rbLast.ret # <<>>) =>
        LET columns == rbLast.ret[1]
            root == rbLast.root
        IN  /\ root.struct =>
                 /\ Len(columns) = Len(root.children)
                 /\ \A i \in DOMAIN columns :
                       /\ columns[i].name = root.children[i][1]
                       /\ columns[i].len = root.len
            /\ ~root.struct =>
                 /\ Len(columns) = 1
                 /\ columns[1].name = root.name

\* A record of one row with the fields b and a, in this order, came back as
\* a frame.
C20_Witness ==
    /\ rbLast.op = "pl_dataframe_from_arrow_record_batch"
    /\ rbLast.root.struct
    /\ rbLast.root.len = 1
    /\ rbLast.root.children = << <<"b", 1, {}>>, <<"a", 1, {1}>> >>
    /\ rbLast.ret = << <<[name |-> "b", len |-> 1, nulls |-> {}],
                         [name |-> "a", len |-> 1, nulls |-> {1}]>> >>

IntegerKinds ==
    {"Int8", "Int16", "Int32", "Int64", "UInt8", "UInt16", "UInt32", "UInt64"}

\* C30: pl_series_get_i64 returns true for every in-range non-null element
\* of a Series of any integer type, and whenever it returns true the value
\* written equals the element.
C30_GetI64ReadsEveryInteger ==
    (serLast.op = "pl_series_get_i64" /\ serLast.ptr \in serLive) =>
        LET sr == serVal[serLast.ptr]
            inRange == serLast.idx < Len(sr.elems)
        IN  /\ (/\ sr.dtype.k \in IntegerKinds
                /\ inRange
                /\ sr.elems[serLast.idx + 1] # <<>>) => serLast.ret = TRUE
            /\ serLast.ret = TRUE => serLast.out = sr.elems[serLast.idx + 1]
\* C28: an operation that receives DataType handles as arguments only
\* borrows them: every handle that is live before pl_datatype_new_list or
\* pl_datatype_new_struct is called is live after the call, whether the call
\* succeeded or failed, so the caller frees none of them twice by freeing
\* each once afterwards.
C28_TypeHandlesOnlyBorrowed ==
    [][dtLast'.op \in {"pl_datatype_new_list", "pl_datatype_new_struct"} =>
          dtLive \subseteq dtLive']_vars
\* ------------------------------------- selectors by kind code (selectors.rs)
\* Selectors made from every kind code, valid or not.
KindArgs == (0 - 1)..(Len(KindTable))
NextByKind ==
    \/ \E c \in KindArgs : pl_selector_by_dtype(c)
    \/ \E s \in selLive : pl_selector_free(s)

SpecByKind == Init /\ [][NextByKind]_vars

\* C29: for every kind code k in 1..22 and every column type t, the selector
\* made by pl_selector_by_dtype(k) selects a column of type t exactly when
\* the kind code of t is k; code 0 and every code outside 0..22 give a
\* selector that selects no column.
C29_SelectorsAgreeWithKinds ==
    \A h \in selLive :
        selMade[h].op = "pl_selector_by_dtype" =>
            LET k == selMade[h].args[1]
            IN  \A t \in DTypes :
                    (Selected(selVal[h], [n \in {ValA} |-> t]) = {ValA})
                    <=> (k \in 1..22 /\ KindCode(map_dtype_to_kind(t)) = k)
\* --------------------------------------- pl_datatype_to_string (datatypes.rs)
\* Types with nesting: a field of a Struct is <<name, type>>.
ShownLeaves == {[k |-> "Int64"], [k |-> "String"]}
FieldsOver(T) == UNION {[1..n -> {"a", "b"} \X T] : n \in 0..2}
NestedOver(T) ==
    {[k |-> "List", inner |-> t] : t \in T}
    \cup {[k |-> "Struct", fields |-> f] : f \in FieldsOver(T)}
ShownShallow == ShownLeaves \cup NestedOver(ShownLeaves)
ShownTypes ==
    ShownShallow
    \cup NestedOver(ShownShallow)
    \cup {[k |-> "List", inner |-> [k |-> "List", inner |-> t]] :
            t \in NestedOver(NestedOver(ShownLeaves))}

\* Display for DataType, for the types without nesting.
Display(dt) ==
    CASE dt.k = "Int64" -> "i64"
      [] dt.k = "String" -> "str"
      [] dt.k = "Boolean" -> "bool"
      [] dt.k = "Null" -> "null"
      [] OTHER -> dt.k

\* content.join(sep)
RECURSIVE Join(_, _)
Join(content, sep) ==
    IF content = <<>> THEN ""
    ELSE IF Len(content) = 1 THEN content[1]
    ELSE content[1] \o sep \o Join(Tail(content), sep)

\* Display for every type: a Struct shows the number of its fields.
RECURSIVE dtype_to_string_display(_)
dtype_to_string_display(dt) ==
    CASE dt.k = "Struct" -> "struct[" \o ToString(Len(dt.fields)) \o "]"
      [] dt.k = "List" -> "list[" \o dtype_to_string_display(dt.inner) \o "]"
      [] OTHER -> Display(dt)
\* dtype_to_string_verbose
RECURSIVE dtype_to_string_verbose(_)
dtype_to_string_verbose(dt) ==
    CASE dt.k = "Struct" ->
            LET content == [i \in DOMAIN dt.fields |->
                              dt.fields[i][1] \o ": "
                                 \o dtype_to_string_verbose(dt.fields[i][2])]
            IN  "struct[" \o Join(content, ", ") \o "]"
      [] dt.k = "List" -> "list[" \o dtype_to_string_verbose(dt.inner) \o "]"
      [] OTHER -> Display(dt)

\* pl_datatype_to_string, inside ffi_try!: the rendering as a C string.
pl_datatype_to_string(dt_ptr) ==
    /\ dt_ptr \in dtLive
    /\ NoDtHandle("pl_datatype_to_string", dt_ptr, "value",
                  dtype_to_string_verbose(dtType[dt_ptr]))

\* A handle on a type of any nesting is at hand.
InitShow ==
    /\ InitLazy
    /\ InitSink
    /\ InitExt
    /\ dtLive = {1}
    /\ \E t \in ShownTypes : dtType = [h \in DtIds |-> IF h = 1 THEN t ELSE NoType]
    /\ nextDt = 2
    /\ dtMade = [h \in DtIds |-> IF h = 1 THEN [op |-> "given", code |-> 0] ELSE NoMade]
    /\ dtLast = InitCall
    /\ aborted = FALSE

NextShow ==
    \/ \E h \in dtLive : pl_datatype_new_list(h)
    \/ \E h \in dtLive : pl_datatype_to_string(h)

SpecShow == InitShow /\ [][NextShow]_vars

\* The rendering the claim describes: the fields of a Struct one after the
\* other, each but the first preceded by ", ".
RECURSIVE Rendered(_)
Rendered(t) ==
    IF t.k = "Struct"
    THEN LET F[i \in 0..Len(t.fields)] ==
                 IF i = 0 THEN ""
                 ELSE F[i - 1] \o (IF i = 1 THEN "" ELSE ", ")
                        \o t.fields[i][1] \o ": " \o Rendered(t.fields[i][2])
         IN  "struct[" \o F[Len(t.fields)] \o "]"
    ELSE IF t.k = "List" THEN "list[" \o Rendered(t.inner) \o "]"
    ELSE IF t.k = "Int64" THEN "i64" ELSE "str"

\* C25: pl_datatype_to_string renders a Struct as "struct[" + its fields as
\* "name: type" joined by ", " + "]", a List as "list[" + the rendered inner
\* type + "]", at every nesting depth (a Struct without fields as
\* "struct[]"), and any other type by its name.
C25_ToStringIsStructural ==
    (dtLast.op = "pl_datatype_to_string" /\ dtLast.arg \in dtLive) =>
        /\ dtLast.ret = Rendered(dtType[dtLast.arg])
        /\ dtType[dtLast.arg] = [k |-> "Struct", fields |-> <<>>] =>
              dtLast.ret = "struct[]"

\* A list of structs with a nested list was rendered.
C25_Witness ==
    /\ dtLast.op = "pl_datatype_to_string"
    /\ dtLast.arg = 2
    /\ dtType[2] = [k |-> "List",
                    inner |-> [k |-> "Struct",
                               fields |-> << <<"a", [k |-> "Int64"]>>,
                                             <<"b", [k |-> "List",
                                                     inner |-> [k |-> "String"]]>> >>]]
    /\ dtLast.ret = "list[struct[a: i64, b: list[str]]]"
\* ------------------------------------ upgrade_to_large_list (series.rs)
\* An Arrow array is its type with its buffers: a List or LargeList has
\* offsets, an optional validity, the name of its inner field and its values;
\* a Struct a length, an optional validity and its named children; a
\* FixedSizeList a size, a length, an optional validity and its values.
ArrPrim(n) == [t |-> "Int32", len |-> n]
ArrOffsets(n) == IF n = 1 THEN {<<0, 2>>, <<1, 2>>} ELSE {<<0, 1, 2>>, <<0, 0, 2>>}
ArrValidity(n) == {<<>>, <<[i \in 1..n |-> i # 1]>>}
ChildNames == <<"a", "b">>
\* The arrays of length n over the given arrays of length n (kids) and of
\* length 2 (items).
ArrOver(n, kids, items) ==
    {[t |-> lt, len |-> n, offsets |-> o, validity |-> v, name |-> "item",
      values |-> x] :
        lt \in {"List", "LargeList"}, o \in ArrOffsets(n), v \in ArrValidity(n),
        x \in items}
    \cup {[t |-> "Struct", len |-> n, validity |-> v, fields |-> f] :
            v \in ArrValidity(n),
            f \in UNION {[1..m -> kids] : m \in 0..2}}
    \cup {[t |-> "FixedSizeList", len |-> n, size |-> 1, validity |-> v,
           name |-> "item", values |-> x] :
            v \in ArrValidity(n), x \in kids}
ArrShallow(n) == {ArrPrim(n)} \cup ArrOver(n, {ArrPrim(n)}, {ArrPrim(2)})
ArrDeep ==
    {[t |-> "List", len |-> 1, offsets |-> <<0, 2>>, validity |-> <<>>,
      name |-> "item", values |-> x] :
        x \in {y \in ArrOver(2, ArrShallow(2), ArrShallow(2)) : y.t # "List"}}
Arrays == ArrShallow(1) \cup ArrOver(1, ArrShallow(1), ArrShallow(2)) \cup ArrDeep

\* array.dtype()
RECURSIVE ArrowDType(_)
ArrowDType(a) ==
    CASE a.t \in {"List", "LargeList"} ->
            [k |-> a.t, name |-> a.name, inner |-> ArrowDType(a.values)]
      [] a.t = "FixedSizeList" ->
            [k |-> a.t, size |-> a.size, name |-> a.name,
             inner |-> ArrowDType(a.values)]
      [] a.t = "Struct" ->
            [k |-> a.t,
             fields |-> [i \in DOMAIN a.fields |->
                           <<ChildNames[i], ArrowDType(a.fields[i])>>]]
      [] OTHER -> [k |-> a.t]

\* upgrade_to_large_list: a List gets i64 offsets of the same values and its
\* values upgraded; a LargeList and a Struct are rebuilt around their
\* upgraded children when the type of a child changed and returned as they
\* are otherwise; every other array is returned as it is.
RECURSIVE upgrade_to_large_list(_)
upgrade_to_large_list(a) ==
    CASE a.t = "List" ->
            [a EXCEPT !.t = "LargeList",
                      !.offsets = [i \in DOMAIN a.offsets |-> a.offsets[i]],
                      !.values = upgrade_to_large_list(a.values)]
      [] a.t = "LargeList" ->
            LET new_values == upgrade_to_large_list(a.values)
            IN  IF ArrowDType(new_values) = ArrowDType(a.values) THEN a
                ELSE [a EXCEPT !.values = new_values]
      [] a.t = "Struct" ->
            LET new_values == [i \in DOMAIN a.fields |->
                                 upgrade_to_large_list(a.fields[i])]
                changed == \E i \in DOMAIN a.fields :
                              ArrowDType(a.fields[i]) # ArrowDType(new_values[i])
            IN  IF ~changed THEN a ELSE [a EXCEPT !.fields = new_values]
      [] OTHER -> a

\* One call of upgrade_to_large_list, as pl_arrow_to_series makes it on the
\* array it imported; again is what a second call gives on the result.
UpgradeCall(array) ==
    /\ serLast = NoSerCall
    /\ serLast' = [op |-> "upgrade_to_large_list", array |-> array,
                   ret |-> upgrade_to_large_list(array),
                   again |-> upgrade_to_large_list(upgrade_to_large_list(array))]
    /\ UNCHANGED <<serLive, serVal, serMade, nextSer, nonSerVars>>

NextUpgrade == \E a \in Arrays : UpgradeCall(a)

SpecUpgrade == Init /\ [][NextUpgrade]_vars

\* Whether a List with 32-bit offsets is in the array, at any depth.
RECURSIVE HasList32(_)
HasList32(a) ==
    CASE a.t = "List" -> TRUE
      [] a.t \in {"LargeList", "FixedSizeList"} -> HasList32(a.values)
      [] a.t = "Struct" -> \E i \in DOMAIN a.fields : HasList32(a.fields[i])
      [] OTHER -> FALSE
\* The array with the width of its offsets forgotten: lengths, offset
\* values, validity bitmaps and field names are what is left.
RECURSIVE Widthless(_)
Widthless(a) ==
    CASE a.t \in {"List", "LargeList"} ->
            [a EXCEPT !.t = "AnyList", !.values = Widthless(a.values)]
      [] a.t = "FixedSizeList" -> [a EXCEPT !.values = Widthless(a.values)]
      [] a.t = "Struct" ->
            [a EXCEPT !.fields = [i \in DOMAIN a.fields |-> Widthless(a.fields[i])]]
      [] OTHER -> a

\* C22: in the result of upgrade_to_large_list no List with 32-bit offsets
\* remains at any depth, while the length, the offset values, the validity
\* bitmaps and the field names are those of the argument; an array without a
\* 32-bit List is returned as it is, and a second application changes
\* nothing.
C22_UpgradeWidensEverywhere ==
    serLast.op = "upgrade_to_large_list" =>
        /\ ~HasList32(serLast.ret)
        /\ Widthless(serLast.ret) = Widthless(serLast.array)
        /\ ~HasList32(serLast.array) => serLast.ret = serLast.array
        /\ serLast.again = serLast.ret
\* ------------------------------------------------ pl_to_arrow (io.rs)
MaxChunkLen == 1    \* rows of a chunk of a column
MaxColChunks == 2   \* chunks of a column

\* A column of a DataFrame is its name and its chunks; a chunk is its length
\* and the positions of its nulls.
ColChunks ==
    {ch \in [len : 0..MaxChunkLen, nulls : SUBSET (1..MaxChunkLen)] :
        ch.nulls \subseteq 1..ch.len}
ChunkLists == UNION {[1..n -> ColChunks] : n \in 1..MaxColChunks}
ColLen(chunks) == SumSeq([i \in DOMAIN chunks |-> chunks[i].len])
\* DataFrame::new: columns of distinct names and of one length, the height;
\* no column, height 0.
Frames ==
    {[height |-> IF cs = <<>> THEN 0 ELSE ColLen(cs[1].chunks), columns |-> cs] :
        cs \in {q \in SeqsUpTo([name : FieldNames, chunks : ChunkLists], MaxFields) :
                  \A i \in DOMAIN q, j \in DOMAIN q :
                      i # j => /\ q[i].name # q[j].name
                               /\ ColLen(q[i].chunks) = ColLen(q[j].chunks)}}

RechunkFirstChunk(chunks) == <<chunks[1].len, chunks[1].nulls>>
\* s.clone().rechunk_to_arrow(..): the chunks one after the other as one
\* array, <<length, positions of the nulls>>.
Rechunk(chunks) ==
    LET before(i) == SumSeq([j \in 1..(i - 1) |-> chunks[j].len])
    IN  <<ColLen(chunks),
          UNION {{before(i) + p : p \in chunks[i].nulls} : i \in DOMAIN chunks}>>

\* pl_to_arrow, inside ffi_try_void!: an error for a null pointer; else the
\* columns are cloned and rechunked, and a StructArray of the frame's height
\* over them is written to the out-parameters under a root field named "".
\* The frame is read only.
pl_to_arrow(ctx_null, df) ==
    /\ rbLast = NoRbCall
    /\ rbLast' =
         [op |-> "pl_to_arrow", ctx_null |-> ctx_null, df |-> df, after |-> df,
          out |-> IF ctx_null THEN <<>>
                  ELSE <<[struct |-> TRUE, name |-> "", len |-> df.height,
                          nulls |-> {},
                          children |->
                             [i \in DOMAIN df.columns |->
                                <<df.columns[i].name,
                                  Rechunk(df.columns[i].chunks)[1],
                                  Rechunk(df.columns[i].chunks)[2]>>]]>>]
    /\ UNCHANGED nonRbVars

\* The record that pl_to_arrow wrote is imported.
ImportExported ==
    /\ rbLast.op = "pl_to_arrow"
    /\ rbLast.out # <<>>
    /\ pl_dataframe_from_arrow_record_batch(FALSE, FALSE, rbLast.out[1], TRUE, TRUE)

NextTrip ==
    \/ \E n \in BOOLEAN, df \in Frames : pl_to_arrow(n, df)
    \/ ImportExported

SpecTrip == Init /\ [][NextTrip]_vars

MaxUnpivotRows == 2     \* height of the frame that is unpivoted

UnpivotNames == {"k", "x", "y"}
\* Arrays of distinct names, as a caller passes them; "zz" is no column.
NameLists(S, n) == {q \in SeqsUpTo(S, n) : IsInjective(q)}
\* A frame is its column names in order and its height; the value of column
\* c in row i is <<c, i>>.
UnpivotFrames ==
    [cols : NameLists(UnpivotNames, 3), height : 0..MaxUnpivotRows]

\* on_selector with the index columns left in.
unpivot_on_all(cols, index_names, on_names) ==
    IF on_names = <<>> THEN cols ELSE on_names
\* on_selector: all().exclude_cols(index_names) for an empty list, else
\* cols(on_names); the columns it selects, in order.
unpivot_on(cols, index_names, on_names) ==
    IF on_names = <<>>
    THEN SelectSeq(cols, LAMBDA c : c \notin Range(index_names))
    ELSE on_names

\* LazyFrame::unpivot(args), collected: cols(..) of a name that is no column
\* is an error; else one row per stacked column and input row, stacked
\* column by stacked column, holding the index values of the input row, the
\* name of the stacked column and its value in that row.
Unpivoted(df, index_names, on_names) ==
    LET on == unpivot_on(df.cols, index_names, on_names)
        h == df.height
    IN  IF Range(index_names) \cup Range(on_names) \subseteq Range(df.cols)
        THEN <<[r \in 1..(Len(on) * h) |->
                  LET c == on[((r - 1) \div h) + 1]
                      i == ((r - 1) % h) + 1
                  IN  [index |-> [j \in DOMAIN index_names |-> <<index_names[j], i>>],
                       variable |-> c,
                       value |-> <<c, i>>]]>>
        ELSE <<>>

\* pl_lazy_unpivot on the plan of a frame, then collect.
unpivot_collected(df, index_names, on_names) ==
    /\ last.op = "init"
    /\ last' = [op |-> "pl_lazy_unpivot", df |-> df, index |-> index_names,
                on |-> on_names, val |-> Unpivoted(df, index_names, on_names)]
    /\ UNCHANGED <<lfVars, exVars, resVars, cbLog, running, nonLazyVars>>

NextUnpivot ==
    \E df \in UnpivotFrames, idv \in NameLists(UnpivotNames \cup {"zz"}, 2),
       valv \in NameLists(UnpivotNames \cup {"zz"}, 2) :
        unpivot_collected(df, idv, valv)

SpecUnpivot == Init /\ [][NextUnpivot]_vars

\* C23: with an empty value list pl_lazy_unpivot stacks every column that is
\* no index column, with a non-empty one exactly the listed columns; the
\* collected result has (stacked columns) x (input height) rows, one for each
\* stacked column and input row, which holds the index values of that input
\* row and, as its variable, the name of the column its value comes from.
C23_UnpivotStacksTheRightColumns ==
    (last.op = "pl_lazy_unpivot" /\ last.val # <<>>) =>
        LET df == last.df
            out == last.val[1]
            stacked == IF last.on = <<>>
                       THEN Range(df.cols) \ Range(last.index)
                       ELSE Range(last.on)
        IN  /\ Len(out) = Cardinality(stacked) * df.height
            /\ \A c \in stacked, i \in 1..df.height :
                  Cardinality({r \in DOMAIN out :
                                  /\ out[r].variable = c
                                  /\ out[r].value = <<c, i>>}) = 1
            /\ \A r \in DOMAIN out :
                  /\ out[r].variable \in stacked
                  /\ out[r].value[1] = out[r].variable
                  /\ Len(out[r].index) = Len(last.index)
                  /\ \A j \in DOMAIN last.index :
                        out[r].index[j] = <<last.index[j], out[r].value[2]>>

\* The frame (k, x, y) of two rows was unpivoted on the index k with no value
\* column named: four rows, x stacked before y.
C23_Witness ==
    /\ last.op = "pl_lazy_unpivot"
    /\ last.df = [cols |-> <<"k", "x", "y">>, height |-> 2]
    /\ last.index = <<"k">>
    /\ last.on = <<>>
    /\ last.val # <<>>
    /\ Len(last.val[1]) = 4
    /\ last.val[1][3] = [index |-> <<(<<"k", 1>>)>>, variable |-> "y",
                         value |-> <<"y", 1>>]
\* ------------------------------------ pl_lazy_join_asof, collected (lazy.rs)
\* Strings are sequences of characters.
DigitChars == <<"0", "1", "2", "3", "4", "5", "6", "7", "8", "9">>
IsDigits(q) == q # <<>> /\ \A i \in DOMAIN q : q[i] \in Range(DigitChars)
Unsigned(q) == IF q # <<>> /\ q[1] \in {"+", "-"} THEN Tail(q) ELSE q
RECURSIVE NumVal(_)
NumVal(q) ==
    IF q = <<>> THEN 0
    ELSE 10 * NumVal(SubSeq(q, 1, Len(q) - 1))
         + (CHOOSE d \in 0..9 : DigitChars[d + 1] = q[Len(q)])
\* The part of q before the first character of cs, and the part after it
\* (<<>> twice over when there is none: found tells).
Found(q, cs) == \E i \in DOMAIN q : q[i] \in cs
FirstAt(q, cs) == CHOOSE i \in DOMAIN q : q[i] \in cs /\ \A j \in 1..(i - 1) : q[j] \notin cs
Before(q, cs) == IF Found(q, cs) THEN SubSeq(q, 1, FirstAt(q, cs) - 1) ELSE q
After(q, cs) == IF Found(q, cs) THEN SubSeq(q, FirstAt(q, cs) + 1, Len(q)) ELSE <<>>

\* str::parse::<i64>: an optional sign and digits, within the range of i64.
ParsesI64(q) ==
    LET b == Unsigned(q)
    IN  /\ IsDigits(b)
        /\ IF q[1] = "-" THEN NumVal(b) <= Pow2(I64Width - 1)
           ELSE NumVal(b) <= Pow2(I64Width - 1) - 1
\* str::parse::<f64>: an optional sign, then inf, infinity or nan, or digits
\* with an optional point and an optional exponent.
ParsesF64(q) ==
    LET b == Unsigned(q)
        mant == Before(b, {"e", "E"})
        hasExp == Found(b, {"e", "E"})
        exp == After(b, {"e", "E"})
        hasDot == Found(mant, {"."})
        int == Before(mant, {"."})
        frac == After(mant, {"."})
    IN  \/ b \in {<<"i", "n", "f">>, <<"n", "a", "n">>,
                  <<"i", "n", "f", "i", "n", "i", "t", "y">>}
        \/ /\ \/ IsDigits(int) /\ (frac = <<>> \/ IsDigits(frac))
              \/ int = <<>> /\ hasDot /\ IsDigits(frac)
           /\ hasExp => IsDigits(Unsigned(exp))

\* The tolerance of the options: (Option<Scalar>, Option<PlSmallStr>).
Tolerance(tol_str) ==
    IF tol_str = <<>> THEN <<<<>>, <<>>>>
    ELSE IF ParsesI64(tol_str) THEN <<<<"Int64">>, <<>>>>
    ELSE IF ParsesF64(tol_str) THEN <<<<"Float64">>, <<>>>>
    ELSE <<<<>>, <<tol_str>>>>

\* "forward" and "nearest" are themselves; every other string, one that is
\* not UTF-8 included, is backward.
Strategy(s) ==
    IF s = <<"f", "o", "r", "w", "a", "r", "d">> THEN "forward"
    ELSE IF s = <<"n", "e", "a", "r", "e", "s", "t">> THEN "nearest"
    ELSE "backward"

\* AsOfOptions as pl_lazy_join_asof fills them in. by tells whether the
\* by-arrays hold expressions.
AsOfOptions(strategy, tolerance, by) ==
    [strategy |-> Strategy(strategy),
     tolerance |-> Tolerance(tolerance)[1],
     tolerance_str |-> Tolerance(tolerance)[2],
     by |-> by,
     allow_eq |-> TRUE,
     check_sortedness |-> TRUE]

\* Collecting the join: with check_sortedness the keys of both sides are
\* checked, which the engine does for a join without by-groups only; a key
\* found unsorted is an error.
AsOfCollected(options, left_sorted, right_sorted) ==
    IF options.check_sortedness /\ ~options.by /\ ~(left_sorted /\ right_sorted)
    THEN "error" ELSE "rows"

\* pl_lazy_join_asof on two plans, then collect. NullStr is the null
\* pointer and BadUtf8Str a pointer to bytes that are not UTF-8. A null strategy pointer, a
\* null or non-UTF-8 tolerance handled as the code does: the first panics in
\* ptr_to_str, a null tolerance is the empty string, one that is not UTF-8
\* panics in unwrap; a panic is caught by ffi_try and no join is built.
BadUtf8Str == <<"not utf-8">>
NullStr == <<"null">>
asof_collected(strategy, tolerance, by, left_sorted, right_sorted) ==
    /\ last.op = "init"
    /\ LET built == strategy # NullStr /\ tolerance # BadUtf8Str
           tol_str == IF tolerance = NullStr THEN <<>> ELSE tolerance
       IN  last' = [op |-> "pl_lazy_join_asof", built |-> built,
                    tolerance |-> tolerance,
                    left_sorted |-> left_sorted, right_sorted |-> right_sorted,
                    options |-> IF built THEN <<AsOfOptions(strategy, tol_str, by)>>
                                ELSE <<>>,
                    val |-> IF built
                            THEN AsOfCollected(AsOfOptions(strategy, tol_str, by),
                                               left_sorted, right_sorted)
                            ELSE "none"]
    /\ UNCHANGED <<lfVars, exVars, resVars, cbLog, running, nonLazyVars>>

ToleranceArgs ==
    {NullStr, BadUtf8Str, <<>>, <<"5">>, <<"-", "3">>, <<"+", "6", "3">>,
     <<"6", "4">>, <<"-", "6", "4">>, <<"1", ".", "5">>, <<".", "5">>, <<"5", ".">>,
     <<"1", "e", "3">>, <<"1", "e", "-", "3">>, <<"n", "a", "n">>, <<"2", "h">>,
     <<"1", "d", "1", "2", "h">>, <<"e", "5">>, <<"5", "e">>, <<".">>, <<"-">>,
     <<" ", "5">>}
StrategyArgs ==
    {NullStr, BadUtf8Str, <<"f", "o", "r", "w", "a", "r", "d">>,
     <<"n", "e", "a", "r", "e", "s", "t">>,
     <<"b", "a", "c", "k", "w", "a", "r", "d">>, <<"n", "e", "x", "t">>}
NextAsof ==
    \E st \in StrategyArgs,
       tol \in ToleranceArgs, by \in BOOLEAN, ls \in BOOLEAN, rs \in BOOLEAN :
        asof_collected(st, tol, by, ls, rs)

SpecAsof == Init /\ [][NextAsof]_vars

\* C24: every AsOf join that pl_lazy_join_asof builds has check_sortedness
\* and allow_eq set, so that collecting it with a join key that is not sorted
\* on either side fails instead of returning rows; its tolerance is never
\* both numeric and textual: none for a null or empty string, a numeric
\* scalar only for a string that parses as an integer or a float, a duration
\* string only for any other string.
C24_AsofCheckedAndToleranceExclusive ==
    (last.op = "pl_lazy_join_asof" /\ last.built) =>
        LET o == last.options[1]
            t == last.tolerance
        IN  /\ o.check_sortedness
            /\ o.allow_eq
            /\ ~(last.left_sorted /\ last.right_sorted) => last.val = "error"
            /\ ~(o.tolerance # <<>> /\ o.tolerance_str # <<>>)
            /\ t \in {NullStr, <<>>} => o.tolerance = <<>> /\ o.tolerance_str = <<>>
            /\ t \in {<<"5">>, <<"-", "3">>, <<"+", "6", "3">>, <<"6", "4">>,
                      <<"-", "6", "4">>, <<"1", ".", "5">>, <<".", "5">>,
                      <<"5", ".">>, <<"1", "e", "3">>, <<"1", "e", "-", "3">>,
                      <<"n", "a", "n">>} =>
                  o.tolerance # <<>> /\ o.tolerance_str = <<>>
            /\ t \in {<<"2", "h">>, <<"1", "d", "1", "2", "h">>, <<"e", "5">>,
                      <<"5", "e">>, <<".">>, <<"-">>, <<" ", "5">>} =>
                  o.tolerance = <<>> /\ o.tolerance_str = <<t>>
\* --------------------------- impl AnonymousScan for CSharpStreamScanner
allows_predicate_pushdown == FALSE
allows_projection_pushdown == TRUE
allows_slice_pushdown == TRUE

\* AnonymousScanArgs as the executor fills them in for a plan that selects
\* the columns with_columns (<<>> is None, <<S>> is Some) and limits the
\* rows to n_rows: a pushdown reaches the scan when the scanner allows it.
AnonymousScanArgs(with_columns, n_rows) ==
    [with_columns |-> IF allows_projection_pushdown THEN with_columns ELSE <<>>,
     n_rows |-> IF allows_slice_pushdown THEN n_rows ELSE <<>>]

\* What the stream factory callback hands back: a null stream, a stream that
\* cannot be consumed, or a stream of a frame.
StreamFrames ==
    {[tag |-> "frame", cols |-> c, rows |-> n] :
        c \in {<<>>, <<SourceCols[1]>>, <<SourceCols[2]>>, SourceCols,
               <<SourceCols[2], SourceCols[1]>>},
        n \in 0..MaxRows}
Streams == {[tag |-> "null"], [tag |-> "broken"]} \cup StreamFrames

\* scan: the callback's stream is consumed by pl_dataframe_new_from_stream
\* and its frame returned; _scan_opts is not read.
scan(scan_opts, stream) ==
    IF stream.tag = "null" THEN ErrVal
    ELSE IF stream.tag = "broken" THEN ErrVal
    ELSE stream

\* The executor calls scan of a scanner for a plan with a projection and a
\* row limit.
ScanCall(with_columns, n_rows, stream) ==
    /\ last.op = "init"
    /\ last' = [op |-> "scan",
                scan_opts |-> AnonymousScanArgs(with_columns, n_rows),
                stream |-> stream,
                val |-> scan(AnonymousScanArgs(with_columns, n_rows), stream)]
    /\ UNCHANGED <<lfVars, exVars, resVars, cbLog, running, nonLazyVars>>

NextScan ==
    \E wc \in {<<>>} \cup {<<S>> : S \in SUBSET {SourceCols[1][1], SourceCols[2][1]}},
       n \in {<<>>} \cup {<<k>> : k \in 0..MaxRows},
       stream \in Streams :
        ScanCall(wc, n, stream)

SpecScan == Init /\ [][NextScan]_vars

\* C26: the scanner declares projection and slice pushdown supported and
\* predicate pushdown unsupported, and whenever its scan is called with a
\* requested column subset and/or a row limit, the frame the scan returns
\* holds only the requested columns and at most the requested number of rows.
C26_ScanHonoursPushdown ==
    /\ allows_projection_pushdown /\ allows_slice_pushdown
    /\ ~allows_predicate_pushdown
    /\ (last.op = "scan" /\ last.val # ErrVal) =>
          /\ last.scan_opts.with_columns # <<>> =>
                \A i \in DOMAIN last.val.cols :
                    last.val.cols[i][1] \in last.scan_opts.with_columns[1]
          /\ last.scan_opts.n_rows # <<>> =>
                last.val.rows <= last.scan_opts.n_rows[1]

\* C27: the external context given to pl_lazy_frame_scan_stream is never
\* leaked: whatever the call returned, an error for a schema that cannot be
\* imported or whose root is not a struct included, the teardown callback is
\* invoked on it exactly once, at the latest when no plan holds it any more.
C27_ContextNeverLeaked ==
    \A r \in ResIds :
        (r < nextRes /\ resKind[r] \in {"scanner", "unowned"}) =>
            /\ torn[r] <= 1
            /\ Holders(r) = 0 => torn[r] = 1
====
